---- MODULE Spec2Model ----
(***************************************************************************)
(* Merkle tree service and companion CLI.                                  *)
(*                                                                         *)
(*   - storage sync (syncTree, the Redis cache tier, the S3 and the        *)
(*     PostgreSQL backends, the cache maintenance handlers): SpecSync      *)
(*   - scheduler (start, stop, executeBuild, triggerManualBuild): SpecSched*)
(*   - tree construction and inclusion proofs (buildMerkleTree,            *)
(*     generateMerkleProof, verifyMerkleProof): SpecProof                  *)
(*   - the generic and typed cache operations of redisService: SpecCache   *)
(***************************************************************************)
EXTENDS Integers, Sequences, FiniteSets, TLC

(***************************************************************************)
(* Bounds of the model.                                                    *)
(***************************************************************************)
\* number of storeTree attempts (each draws a fresh id / timestamp)
MaxStores == 2
\* longest item list handed to buildMerkleTree
MaxItems == 4
\* number of builds the scheduler counts (buildCount)
MaxBuilds == 3

\* the absent value (null / None)
Null == "null"
\* root hashes of the trees handed to syncTree
RootHashes == {"A", "B"}

VARIABLES
    \* ---- storageService / s3Service / PostgreSQL -----------------------
    storageMode,      \* 's3' or 'postgresql'
    s3Trees,          \* hashes h with an object trees/<h>.json
    s3Roots,          \* h -> record stored at metadata/roots/<h>.json
    s3Latest,         \* rootHash in metadata/latest-root.json, or Null
    merkle_roots,     \* committed rows of table merkle_roots
    merkle_tree_data, \* committed rows of merkle_tree_data (their root_id)
    pgTx,             \* rows written by the open transaction
    seq,              \* ids and timestamps handed out so far
    \* ---- redisService --------------------------------------------------
    redisClient,      \* TRUE when a client was created (REDIS_ENABLED)
    isConnected,      \* redisService.isConnected
    cache,            \* the keys of the Redis server: key -> value or Null
    \* ---- one syncTree call ---------------------------------------------
    pc,               \* position inside syncTree
    tree,             \* treeData.root.hash of the call
    latestRootHash,   \* the local of syncTree
    result,           \* what the call returns or throws
    leafCount,        \* treeData.leafCount of the trees handed to syncTree
    \* ---- warmupCache handler -------------------------------------------
    wpc,              \* position inside warmupCache
    wLatest,          \* rootHash read by warmupCache's getLatestRootHash
    \* ---- observation of the calls (history) ----------------------------
    hCall,            \* what the running call did so far
    hPrev,            \* the same for the call that returned before it
    hAccepted,        \* root hashes whose storeTree completed
    refRoots,         \* root hashes committed by the cache-less syncTree
    refLatest,        \* latest root of the cache-less syncTree
    refResult,        \* result of the cache-less syncTree for this call
    \* ---- redisService, one operation called on its own ------------------
    op,               \* the last cache operation: what it returned or threw
    trip,             \* a value written to the cache and read back
    \* ---- dbSyncService: the clients of the pg Pool ----------------------
    pgCalls,          \* caller -> the PostgreSQL function it is inside
    checkedOut,       \* clients checked out of dbPool and not released
    \* ---- redisService: the socket of the client and its reconnection ----
    socket,           \* its state, the retries so far, the delay, the server
    \* ---- schedulerService ----------------------------------------------
    isRunning,        \* schedulerService.isRunning
    cronJob,          \* TRUE while a started cron task exists
    immediates,       \* setImmediate callbacks of start() not yet run
    isBuildInProgress,\* schedulerService.isBuildInProgress
    buildCount,       \* schedulerService.buildCount
    lastBuildAttempt, \* schedulerService.lastBuildAttempt (0: null)
    tick,             \* what the last cron or deferred callback did
    builds,           \* build number -> where its executeBuild stands
    manual,           \* outcome of the last triggerManualBuild
    response,         \* what POST /health/build last answered
    \* ---- server.js: the process and its graceful shutdown ---------------
    isShuttingDown,   \* server.js isShuttingDown
    dbPool,           \* the pg Pool is open (FALSE: null, or ended)
    shutdown,         \* position inside gracefulShutdown
    health,           \* what GET /health last answered
    shutdownCalls,    \* the calls of gracefulShutdown: how many, how many ran
    \* ---- merkle tree CLI: build, proof, verify --------------------------
    proofModule,      \* the module generateMerkleProof is taken from
    dataBlocks,       \* handleCli: the item list (data blocks or file paths)
    filesMode,        \* handleCli: isFilePaths
    verify,           \* handleCli: options.verify, the item to prove
    built,            \* handleCli: {root, treeLevels} of buildMerkleTree
    cliProof,         \* handleCli: proof, what generateMerkleProof returned
    expectedRoot,     \* the merkleRoot handed to verifyMerkleProof
    isValid,          \* handleCli: isValid, what verifyMerkleProof returned
    cliPc,            \* position inside handleCli
    \* ---- a second run of buildMerkleTree, to compare with the first ------
    otherBlocks,      \* the item list of the second run
    rebuilt,          \* {root, treeLevels} of the second run
    runPc,            \* which of the two runs have returned
    \* ---- treeBuilderService: the scan of the source directory -----------
    readdir,          \* directory -> its entries in the order readdir yields
    BATCH_SIZE,       \* config.BATCH_SIZE
    files,            \* scanDirectory: the files handed to buildTree
    scanPc,           \* position inside buildAndSync
    lastBuildResult,  \* treeBuilderService.lastBuildResult
    buildCall         \* the buildAndSync call: its number, what it threw

backendVars == <<storageMode, s3Trees, s3Roots, s3Latest, merkle_roots,
                 merkle_tree_data, pgTx, seq>>
cacheVars == <<redisClient, isConnected, cache>>
callVars == <<pc, tree, latestRootHash, result>>
handlerVars == <<wpc, wLatest>>
histVars == <<hCall, hPrev, hAccepted, refRoots, refLatest, refResult>>
syncVars == <<backendVars, cacheVars, callVars, handlerVars, histVars>>

opVars == <<op, trip, pgCalls, checkedOut, socket>>
schedVars == <<isRunning, cronJob, immediates, isBuildInProgress, buildCount,
               lastBuildAttempt, tick, builds, manual,
               response>>
proofVars == <<proofModule, dataBlocks, filesMode, verify, built, cliProof,
               expectedRoot, isValid, cliPc>>
\* what the steps of the storage sync leave alone
serverVars == <<isShuttingDown, dbPool, shutdown, health, shutdownCalls>>
argVars == <<leafCount>>
runVars == <<otherBlocks, rebuilt, runPc>>
scanVars == <<readdir, BATCH_SIZE, files, scanPc, lastBuildResult, buildCall>>
notSyncVars == <<opVars, schedVars, proofVars, serverVars, argVars, runVars,
    scanVars>>
\* what the scheduler leaves alone
notSchedVars == <<syncVars, opVars, proofVars, serverVars, argVars, runVars,
    scanVars>>
\* what the CLI leaves alone
notCliVars == <<syncVars, opVars, schedVars, serverVars, argVars, runVars,
    scanVars>>

vars == <<syncVars, opVars, schedVars, proofVars, serverVars, argVars, runVars,
    scanVars>>

(***************************************************************************)
(* Backend reads.                                                          *)
(***************************************************************************)
\* ids and timestamps count from 1; 0 is the record an earlier run of the
\* service left in the storage
NoRecord == [id |-> -1, createdAt |-> -1]
OldRecord == [id |-> 0, createdAt |-> 0]
NoTx == [open |-> FALSE, root |-> NoRecord, rootHash |-> Null, data |-> FALSE]

\* the SELECT of getLatestRootHashPostgreSQL ordered by created_at ASC
getLatestRootHashPostgreSQL_oldest ==
    IF merkle_roots = {} THEN Null
    ELSE (CHOOSE r \in merkle_roots :
             \A q \in merkle_roots : r.created_at <= q.created_at).root_hash

\* SELECT root_hash FROM merkle_roots ORDER BY created_at DESC LIMIT 1
getLatestRootHashPostgreSQL ==
    IF merkle_roots = {} THEN Null
    ELSE (CHOOSE r \in merkle_roots :
             \A q \in merkle_roots : q.created_at <= r.created_at).root_hash

\* s3Service.getLatestRootHash when the pointer object is read and parsed
s3GetLatestRootHash == s3Latest

\* the latest root the backend reports
BackendLatest ==
    IF storageMode = "s3" THEN s3GetLatestRootHash
    ELSE getLatestRootHashPostgreSQL

\* root hashes that have a committed root record
CommittedHashes ==
    IF storageMode = "s3" THEN {h \in RootHashes : s3Roots[h] # NoRecord}
    ELSE {r.root_hash : r \in merkle_roots}

\* getStats().total_trees
TotalTrees ==
    IF storageMode = "s3"
    THEN Cardinality({h \in RootHashes : s3Roots[h] # NoRecord})
    ELSE Cardinality(merkle_roots)

\* the record committed for h (NoRecord when there is none)
RecordOf(h) ==
    IF storageMode = "s3" THEN s3Roots[h]
    ELSE IF \E r \in merkle_roots : r.root_hash = h
         THEN LET r == CHOOSE r \in merkle_roots : r.root_hash = h
              IN [id |-> r.id, createdAt |-> r.created_at]
         ELSE NoRecord

(***************************************************************************)
(* redisService: the generic and the typed cache operations.  Each         *)
(* operator gives what the call returns (ret), whether it throws to its    *)
(* caller (threw) and, for a write, the keys of the server afterwards.     *)
(* clientOk says whether the underlying redisClient call succeeds.         *)
(***************************************************************************)
KeyLatest == <<"merkle:latest_root_hash">>
KeyMeta(h) == <<"merkle:tree_metadata:", h>>
KeyBuild == <<"merkle:build_status">>
CacheKeys == {KeyLatest, KeyBuild} \cup {KeyMeta(h) : h \in RootHashes}
EmptyCache == [k \in CacheKeys |-> Null]

\* the guard of every operation: if (!isConnected || !redisClient)
redisAvailable == isConnected /\ redisClient

\* the JavaScript values handed to the cache: strings (root hashes, a build
\* status, the empty string) and the literals false and 0
JsStrings == RootHashes \cup {"building", ""}
JsLiterals == {"false", "0"}
JsValues == JsStrings \cup JsLiterals

\* JSON.stringify(value): a string is quoted, a literal is its own text
JSON_stringify(value) ==
    IF value \in JsStrings THEN "\"" \o value \o "\"" ELSE value

\* JSON.parse(text): the value that text is the serialization of
JSON_parse(text) == CHOOSE value \in JsValues : JSON_stringify(value) = text

\* redisClient.get(key): the text stored under key, null when there is none;
\* cache[key] is the value that text parses to
redisClient_get(key) ==
    IF cache[key] = Null THEN Null ELSE JSON_stringify(cache[key])

\* get that tests the parsed value, not the text, before it returns it
get_testsParsed(key, clientOk) ==
    IF ~redisAvailable THEN [ret |-> Null, threw |-> FALSE, cache |-> cache]
    ELSE IF clientOk
         THEN LET value == redisClient_get(key) IN
              [ret |-> IF value # Null
                          /\ JSON_parse(value) \notin {"", "false", "0"}
                       THEN JSON_parse(value) ELSE Null,
               threw |-> FALSE, cache |-> cache]
    ELSE [ret |-> Null, threw |-> FALSE, cache |-> cache]

\* const value = await redisClient.get(key); if (value) return
\* JSON.parse(value); an absent key and an empty text read as null
get(key, clientOk) ==
    IF ~redisAvailable THEN [ret |-> Null, threw |-> FALSE, cache |-> cache]
    ELSE IF clientOk
         THEN LET value == redisClient_get(key) IN
              [ret |-> IF value # Null /\ value # ""
                       THEN JSON_parse(value) ELSE Null,
               threw |-> FALSE, cache |-> cache]
    ELSE [ret |-> Null, threw |-> FALSE, cache |-> cache]

\* set without its try/catch: a rejected setEx reaches the caller
set_noCatch(key, value, clientOk) ==
    IF ~redisAvailable THEN [ret |-> FALSE, threw |-> FALSE, cache |-> cache]
    ELSE IF clientOk
         THEN [ret |-> TRUE, threw |-> FALSE,
               cache |-> [cache EXCEPT ![key] = value]]
         ELSE [ret |-> FALSE, threw |-> TRUE, cache |-> cache]

\* setEx(key, actualTtl, JSON.stringify(value))
set(key, value, clientOk) ==
    IF ~redisAvailable THEN [ret |-> FALSE, threw |-> FALSE, cache |-> cache]
    ELSE IF clientOk
         THEN [ret |-> TRUE, threw |-> FALSE,
               cache |-> [cache EXCEPT
                             ![key] = JSON_parse(JSON_stringify(value))]]
         ELSE [ret |-> FALSE, threw |-> FALSE, cache |-> cache]

del(key, clientOk) ==
    IF ~redisAvailable THEN [ret |-> FALSE, threw |-> FALSE, cache |-> cache]
    ELSE IF clientOk
         THEN [ret |-> TRUE, threw |-> FALSE,
               cache |-> [cache EXCEPT ![key] = Null]]
         ELSE [ret |-> FALSE, threw |-> FALSE, cache |-> cache]

exists(key, clientOk) ==
    IF ~redisAvailable THEN [ret |-> FALSE, threw |-> FALSE, cache |-> cache]
    ELSE IF clientOk
         THEN [ret |-> cache[key] # Null, threw |-> FALSE, cache |-> cache]
         ELSE [ret |-> FALSE, threw |-> FALSE, cache |-> cache]

\* invalidateCache('merkle:*') and invalidateCache(): every key of the
\* namespace is deleted
invalidateCache(clientOk) ==
    IF ~redisAvailable THEN [ret |-> FALSE, threw |-> FALSE, cache |-> cache]
    ELSE IF clientOk
         THEN [ret |-> TRUE, threw |-> FALSE, cache |-> EmptyCache]
         ELSE [ret |-> FALSE, threw |-> FALSE, cache |-> cache]

redisService_getLatestRootHash(clientOk) == get(KeyLatest, clientOk)
redisService_setLatestRootHash(rootHash, clientOk) ==
    set(KeyLatest, rootHash, clientOk)
redisService_getTreeMetadata(rootHash, clientOk) ==
    get(KeyMeta(rootHash), clientOk)
redisService_setTreeMetadata(rootHash, metadata, clientOk) ==
    set(KeyMeta(rootHash), metadata, clientOk)
redisService_setBuildStatus(status, clientOk) == set(KeyBuild, status, clientOk)
redisService_getBuildStatus(clientOk) == get(KeyBuild, clientOk)

(***************************************************************************)
(* Events of the Redis connection and of the server.                       *)
(***************************************************************************)
\* redisClient.on('ready')
redis_ready ==
    /\ redisClient /\ ~isConnected
    /\ isConnected' = TRUE
    /\ UNCHANGED <<redisClient, cache>>

\* redisClient.on('error') / on('end')
redis_error ==
    /\ isConnected
    /\ isConnected' = FALSE
    /\ UNCHANGED <<redisClient, cache>>

\* a key written with setEx reaches its TTL
redis_expire ==
    /\ \E k \in CacheKeys :
          /\ cache[k] # Null
          /\ cache' = [cache EXCEPT ![k] = Null]
    /\ UNCHANGED <<redisClient, isConnected>>

(***************************************************************************)
(* The cache-less syncTree, run on the reference backend (refRoots,        *)
(* refLatest) for every call the cached syncTree receives.                 *)
(***************************************************************************)
syncTreeNoCache(t) ==
    IF refLatest = t
    THEN [result |-> "unchanged", roots |-> refRoots, latest |-> refLatest]
    ELSE IF storageMode = "postgresql" /\ t \in refRoots
    THEN \* INSERT violates UNIQUE(root_hash): ROLLBACK, the error is thrown
         [result |-> "store_failed", roots |-> refRoots, latest |-> refLatest]
    ELSE [result |-> "written", roots |-> refRoots \cup {t}, latest |-> t]

(***************************************************************************)
(* storageService.syncTree, one step per await.                            *)
(***************************************************************************)
NoCall == [tree |-> Null, result |-> "none", upd |-> 0, fresh |-> FALSE,
           total0 |-> 0, fault |-> FALSE]
NewCall == [fresh |-> FALSE, total0 |-> 0, seq0 |-> 0, cw |-> {}, mw |-> {},
            fault |-> FALSE]

\* the first step of storeTreeData / insertNewTreePostgreSQL
StoreStart == IF storageMode = "s3" THEN "s3PutTree" ELSE "pgBegin"

\* if (latestRootHash === root.hash) return {written: false, ...}
Compared(latest) ==
    IF latest = tree
    THEN pc' = "return" /\ result' = "unchanged"
    ELSE pc' = StoreStart /\ result' = "none"

\* the call, its argument check and the reference run
syncTree_call(t) ==
    /\ pc = "idle"
    /\ seq < MaxStores
    /\ tree' = t
    /\ latestRootHash' = Null
    /\ IF t = Null
       THEN /\ pc' = "return"
            /\ result' = "invalid"
            /\ UNCHANGED <<refRoots, refLatest, refResult>>
       ELSE /\ pc' = "getCache"
            /\ result' = "none"
            /\ refResult' = syncTreeNoCache(t).result
            /\ refRoots' = syncTreeNoCache(t).roots
            /\ refLatest' = syncTreeNoCache(t).latest
    /\ hCall' = [NewCall EXCEPT !.fresh = BackendLatest # t,
                                 !.total0 = TotalTrees, !.seq0 = seq]
    /\ hPrev' = IF t = hPrev.tree THEN hPrev ELSE NoCall
    /\ UNCHANGED <<backendVars, cacheVars, handlerVars, hAccepted>>
    /\ UNCHANGED notSyncVars

\* getLatestRootHash: const cachedData = await redisService.getLatestRootHash()
getLatestRootHash_cache ==
    /\ pc = "getCache"
    /\ \E clientOk \in BOOLEAN :
          LET r == redisService_getLatestRootHash(clientOk) IN
          IF r.threw
          THEN pc' = "return" /\ result' = "cache_error"
               /\ UNCHANGED latestRootHash
          ELSE IF r.ret # Null
          THEN latestRootHash' = r.ret /\ Compared(r.ret)
          ELSE pc' = "getBackend" /\ UNCHANGED <<latestRootHash, result>>
    /\ UNCHANGED <<backendVars, cacheVars, tree, handlerVars, histVars>>
    /\ UNCHANGED notSyncVars

\* getLatestRootHash: the fallback read of the storage
getLatestRootHash_storage ==
    /\ pc = "getBackend"
    /\ latestRootHash' = BackendLatest
    /\ IF BackendLatest # Null
       THEN pc' = "setCacheRead" /\ UNCHANGED result
       ELSE Compared(Null)
    /\ UNCHANGED <<backendVars, cacheVars, tree, handlerVars, histVars>>
    /\ UNCHANGED notSyncVars

\* s3Service.getLatestRootHash: stream.on('error', () => resolve(null)) and
\* the parse failure in stream.on('end'): the pointer exists, null is returned
getLatestRootHash_s3StreamError ==
    /\ pc = "getBackend"
    /\ storageMode = "s3"
    /\ latestRootHash' = Null
    /\ Compared(Null)
    /\ hCall' = [hCall EXCEPT !.fault = TRUE]
    /\ UNCHANGED <<backendVars, cacheVars, tree, handlerVars, hPrev,
                   hAccepted, refRoots, refLatest, refResult>>
    /\ UNCHANGED notSyncVars

\* the storage read throws (getObject rejects with another code than
\* NoSuchKey, dbPool.connect or the query rejects)
getLatestRootHash_fail ==
    /\ pc = "getBackend"
    /\ pc' = "return"
    /\ result' = "read_failed"
    /\ hCall' = [hCall EXCEPT !.fault = TRUE]
    /\ UNCHANGED <<backendVars, cacheVars, tree, latestRootHash, handlerVars,
                   hPrev, hAccepted, refRoots, refLatest, refResult>>
    /\ UNCHANGED notSyncVars

\* getLatestRootHash_setCache caching the root of the call, ahead of the store
getLatestRootHash_setCache_ahead ==
    /\ pc = "setCacheRead"
    /\ \E clientOk \in BOOLEAN :
          LET r == redisService_setLatestRootHash(tree, clientOk) IN
          /\ cache' = r.cache
          /\ Compared(latestRootHash)
          /\ hCall' = IF r.ret THEN [hCall EXCEPT !.cw = @ \cup {tree}]
                      ELSE hCall
    /\ UNCHANGED <<backendVars, redisClient, isConnected, tree, latestRootHash,
                   handlerVars, hPrev, hAccepted, refRoots, refLatest,
                   refResult>>
    /\ UNCHANGED notSyncVars

\* getLatestRootHash: if (rootHash) await redisService.setLatestRootHash(rootHash)
getLatestRootHash_setCache ==
    /\ pc = "setCacheRead"
    /\ \E clientOk \in BOOLEAN :
          LET r == redisService_setLatestRootHash(latestRootHash, clientOk) IN
          /\ cache' = r.cache
          /\ IF r.threw
             THEN pc' = "return" /\ result' = "cache_error"
             ELSE Compared(latestRootHash)
          /\ hCall' = IF r.ret
                      THEN [hCall EXCEPT !.cw = @ \cup {latestRootHash}]
                      ELSE hCall
    /\ UNCHANGED <<backendVars, redisClient, isConnected, tree, latestRootHash,
                   handlerVars, hPrev, hAccepted, refRoots, refLatest,
                   refResult>>
    /\ UNCHANGED notSyncVars

\* syncTree_catch writing the root of the failed call to the cache
syncTree_catch_updatesCache(fault) ==
    /\ pc' = "return"
    /\ result' = "store_failed"
    /\ cache' = redisService_setLatestRootHash(tree, TRUE).cache
    /\ hCall' = [hCall EXCEPT !.fault = @ \/ fault,
                              !.cw = IF redisAvailable THEN @ \cup {tree}
                                     ELSE @]
    /\ UNCHANGED <<redisClient, isConnected>>

\* syncTree: catch (error) { throw new Error('Failed to sync tree: ...') }
\* after the storage write failed; fault says the storage itself failed
\* (as opposed to the INSERT being refused by UNIQUE(root_hash))
syncTree_catch(fault) ==
    /\ pc' = "return"
    /\ result' = "store_failed"
    /\ hCall' = [hCall EXCEPT !.fault = @ \/ fault]
    /\ UNCHANGED cacheVars

(***************************************************************************)
(* s3Service.storeTreeData: three putObject calls.                         *)
(***************************************************************************)
\* leafCount when treeData has none
Undefined == -1

\* storeTreeData whose first putObject writes the latest pointer, the tree
\* body being left to the last
storeTreeData_pointerFirst ==
    /\ pc = "s3PutTree"
    /\ seq' = seq + 1
    /\ s3Latest' = tree
    /\ pc' = "s3PutRecord"
    /\ UNCHANGED <<cacheVars, result, histVars>>
    /\ UNCHANGED <<storageMode, s3Trees, s3Roots, merkle_roots,
                   merkle_tree_data, pgTx, tree, latestRootHash,
                   handlerVars>>
    /\ UNCHANGED notSyncVars

\* putObject(trees/<rootHash>.json); treeId and timestamp are drawn first.
\* metadata.itemCount.toString() in its arguments throws a TypeError when
\* itemCount is undefined, before the request is made
storeTreeData_putTree ==
    /\ pc = "s3PutTree"
    /\ IF leafCount = Undefined
       THEN /\ syncTree_catch(FALSE)
            /\ UNCHANGED <<seq, s3Trees, hPrev, hAccepted, refRoots,
                           refLatest, refResult>>
       ELSE /\ seq' = seq + 1
            /\ s3Trees' = s3Trees \cup {tree}
            /\ pc' = "s3PutRecord"
            /\ UNCHANGED <<cacheVars, result, histVars>>
    /\ UNCHANGED <<storageMode, s3Roots, s3Latest, merkle_roots,
                   merkle_tree_data, pgTx, tree, latestRootHash,
                   handlerVars>>
    /\ UNCHANGED notSyncVars

\* putObject(metadata/roots/<rootHash>.json)
storeTreeData_putRecord ==
    /\ pc = "s3PutRecord"
    /\ s3Roots' = [s3Roots EXCEPT ![tree] = [id |-> seq, createdAt |-> seq]]
    /\ pc' = "s3PutLatest"
    /\ UNCHANGED <<storageMode, s3Trees, s3Latest, merkle_roots,
                   merkle_tree_data, pgTx, seq, cacheVars, tree,
                   latestRootHash, result, handlerVars, histVars>>
    /\ UNCHANGED notSyncVars

\* updateLatestRoot: putObject(metadata/latest-root.json); storeTreeData returns
storeTreeData_updateLatestRoot ==
    /\ pc = "s3PutLatest"
    /\ s3Latest' = tree
    /\ pc' = "setCacheLatest"
    /\ hAccepted' = hAccepted \cup {tree}
    /\ UNCHANGED <<storageMode, s3Trees, s3Roots, merkle_roots,
                   merkle_tree_data, pgTx, seq, cacheVars, tree,
                   latestRootHash, result, handlerVars, hCall, hPrev,
                   refRoots, refLatest, refResult>>
    /\ UNCHANGED notSyncVars

\* one of the three putObject calls rejects
storeTreeData_fail ==
    /\ pc \in {"s3PutTree", "s3PutRecord", "s3PutLatest"}
    /\ syncTree_catch(TRUE)
    /\ UNCHANGED <<backendVars, tree, latestRootHash, handlerVars, hPrev,
                   hAccepted, refRoots, refLatest, refResult>>
    /\ UNCHANGED notSyncVars

(***************************************************************************)
(* insertNewTreePostgreSQL: BEGIN, two INSERTs, COMMIT; ROLLBACK on error. *)
(***************************************************************************)
\* dbPool.connect(); BEGIN
insertNewTreePostgreSQL_begin ==
    /\ pc = "pgBegin"
    /\ pgTx' = [NoTx EXCEPT !.open = TRUE]
    /\ pc' = "pgInsertRoot"
    /\ UNCHANGED <<storageMode, s3Trees, s3Roots, s3Latest, merkle_roots,
                   merkle_tree_data, seq, cacheVars, tree, latestRootHash,
                   result, handlerVars, histVars>>
    /\ UNCHANGED notSyncVars

\* INSERT INTO merkle_roots ... RETURNING id; root_hash is UNIQUE, and
\* item_count is NOT NULL CHECK (item_count > 0)
insertNewTreePostgreSQL_insertRoot ==
    /\ pc = "pgInsertRoot"
    /\ IF (\E r \in merkle_roots : r.root_hash = tree) \/ leafCount < 1
       THEN /\ pgTx' = NoTx
            /\ syncTree_catch(FALSE)
            /\ UNCHANGED seq
       ELSE /\ seq' = seq + 1
            /\ pgTx' = [pgTx EXCEPT !.rootHash = tree,
                           !.root = [id |-> seq + 1, createdAt |-> seq + 1]]
            /\ pc' = "pgInsertData"
            /\ UNCHANGED <<result, hCall, cacheVars>>
    /\ UNCHANGED <<storageMode, s3Trees, s3Roots, s3Latest, merkle_roots,
                   merkle_tree_data, tree, latestRootHash, handlerVars,
                   hPrev, hAccepted, refRoots, refLatest, refResult>>
    /\ UNCHANGED notSyncVars

\* INSERT INTO merkle_tree_data (root_id, tree_json)
insertNewTreePostgreSQL_insertData ==
    /\ pc = "pgInsertData"
    /\ pgTx' = [pgTx EXCEPT !.data = TRUE]
    /\ pc' = "pgCommit"
    /\ UNCHANGED <<storageMode, s3Trees, s3Roots, s3Latest, merkle_roots,
                   merkle_tree_data, seq, cacheVars, tree, latestRootHash,
                   result, handlerVars, histVars>>
    /\ UNCHANGED notSyncVars

\* COMMIT: the rows of the transaction become visible together
insertNewTreePostgreSQL_commit ==
    /\ pc = "pgCommit"
    /\ merkle_roots' = merkle_roots \cup
          {[id |-> pgTx.root.id, root_hash |-> pgTx.rootHash,
            created_at |-> pgTx.root.createdAt]}
    /\ merkle_tree_data' = IF pgTx.data
                           THEN merkle_tree_data \cup {pgTx.root.id}
                           ELSE merkle_tree_data
    /\ pgTx' = NoTx
    /\ pc' = "setCacheLatest"
    /\ hAccepted' = hAccepted \cup {tree}
    /\ UNCHANGED <<storageMode, s3Trees, s3Roots, s3Latest, seq, cacheVars,
                   tree, latestRootHash, result, handlerVars, hCall, hPrev,
                   refRoots, refLatest, refResult>>
    /\ UNCHANGED notSyncVars

\* a statement of the transaction rejects: ROLLBACK, the error is thrown
insertNewTreePostgreSQL_fail ==
    /\ pc \in {"pgBegin", "pgInsertRoot", "pgInsertData", "pgCommit"}
    /\ pgTx' = NoTx
    /\ syncTree_catch(TRUE)
    /\ UNCHANGED <<storageMode, s3Trees, s3Roots, s3Latest, merkle_roots,
                   merkle_tree_data, seq, tree, latestRootHash, handlerVars,
                   hPrev, hAccepted, refRoots, refLatest, refResult>>
    /\ UNCHANGED notSyncVars

(***************************************************************************)
(* syncTree after the storage write returned.                              *)
(***************************************************************************)
\* await redisService.setLatestRootHash(root.hash, {...})
syncTree_setLatestRootHash ==
    /\ pc = "setCacheLatest"
    /\ \E clientOk \in BOOLEAN :
          LET r == redisService_setLatestRootHash(tree, clientOk) IN
          /\ cache' = r.cache
          /\ IF r.threw
             THEN pc' = "return" /\ result' = "cache_error"
             ELSE pc' = "setCacheMeta" /\ UNCHANGED result
          /\ hCall' = IF r.ret
                      THEN [hCall EXCEPT !.cw = @ \cup {tree}]
                      ELSE hCall
    /\ UNCHANGED <<backendVars, redisClient, isConnected, tree, latestRootHash,
                   handlerVars, hPrev, hAccepted, refRoots, refLatest,
                   refResult>>
    /\ UNCHANGED notSyncVars

\* await redisService.setTreeMetadata(root.hash, {...}); return {written: true}
syncTree_setTreeMetadata ==
    /\ pc = "setCacheMeta"
    /\ \E clientOk \in BOOLEAN :
          LET r == redisService_setTreeMetadata(tree, tree, clientOk) IN
          /\ cache' = r.cache
          /\ pc' = "return"
          /\ result' = IF r.threw THEN "cache_error" ELSE "written"
          /\ hCall' = IF r.ret THEN [hCall EXCEPT !.mw = @ \cup {tree}]
                      ELSE hCall
    /\ UNCHANGED <<backendVars, redisClient, isConnected, tree, latestRootHash,
                   handlerVars, hPrev, hAccepted, refRoots, refLatest,
                   refResult>>
    /\ UNCHANGED notSyncVars

\* the call has returned or thrown; the caller goes on
syncTree_return ==
    /\ pc = "return"
    /\ pc' = "idle"
    /\ tree' = Null
    /\ latestRootHash' = Null
    /\ result' = "none"
    /\ hCall' = NewCall
    /\ refResult' = "none"
    /\ hPrev' = [tree |-> tree, result |-> result,
                 upd |-> Cardinality(hCall.cw), fresh |-> hCall.fresh,
                 total0 |-> hCall.total0, fault |-> hCall.fault]
    /\ IF hCall.fault
       THEN \* a storage fault is no cache event: the reference run goes on
            \* from the storage state the faulty call left
            refRoots' = CommittedHashes /\ refLatest' = BackendLatest
       ELSE UNCHANGED <<refRoots, refLatest>>
    /\ UNCHANGED <<backendVars, cacheVars, handlerVars, hAccepted>>
    /\ UNCHANGED notSyncVars

(***************************************************************************)
(* The cache maintenance handlers (POST /health/cache/clear and            *)
(* /health/cache/warmup, and the warm-up of startServer); they run         *)
(* concurrently with a build.                                              *)
(***************************************************************************)
\* the limit of getRecentRoots in warmupCache
WarmupLimit == 5

\* getRecentRoots(limit): the newest root records
getRecentRoots(limit) ==
    {h \in CommittedHashes :
        Cardinality({g \in CommittedHashes :
            RecordOf(g).createdAt > RecordOf(h).createdAt}) < limit}

\* clearCache: await redisService.invalidateCache('merkle:*')
clearCache ==
    /\ \E clientOk \in BOOLEAN : cache' = invalidateCache(clientOk).cache
    /\ cache' # cache
    /\ UNCHANGED <<backendVars, redisClient, isConnected, callVars,
                   handlerVars, histVars>>
    /\ UNCHANGED notSyncVars

\* warmupCache: getLatestRootHash reads the cache
warmupCache_get ==
    /\ wpc = "idle"
    /\ \E clientOk \in BOOLEAN :
          wpc' = IF redisService_getLatestRootHash(clientOk).ret # Null
                 THEN "meta" ELSE "read"
    /\ UNCHANGED <<backendVars, cacheVars, callVars, wLatest, histVars>>
    /\ UNCHANGED notSyncVars

\* warmupCache: getLatestRootHash reads the storage
warmupCache_read ==
    /\ wpc = "read"
    /\ \/ wLatest' = BackendLatest
          /\ wpc' = IF BackendLatest # Null THEN "set" ELSE "meta"
       \/ \* the read throws: warmupCache catches and returns false
          wLatest' = Null /\ wpc' = "idle"
    /\ UNCHANGED <<backendVars, cacheVars, callVars, histVars>>
    /\ UNCHANGED notSyncVars

\* warmupCache: getLatestRootHash caches what the storage returned
warmupCache_set ==
    /\ wpc = "set"
    /\ \E clientOk \in BOOLEAN :
          cache' = redisService_setLatestRootHash(wLatest, clientOk).cache
    /\ wLatest' = Null
    /\ wpc' = "meta"
    /\ UNCHANGED <<backendVars, redisClient, isConnected, callVars, histVars>>
    /\ UNCHANGED notSyncVars

\* warmupCache: setTreeMetadata for each of getRecentRoots(5)
warmupCache_meta ==
    /\ wpc = "meta"
    /\ \E clientOk \in BOOLEAN :
          cache' = IF redisAvailable /\ clientOk
                   THEN [k \in CacheKeys |->
                           IF \E h \in getRecentRoots(WarmupLimit) :
                                 k = KeyMeta(h)
                           THEN k[2] ELSE cache[k]]
                   ELSE cache
    /\ wpc' = "idle"
    /\ UNCHANGED <<backendVars, redisClient, isConnected, callVars, wLatest,
                   histVars>>
    /\ UNCHANGED notSyncVars

\* the connection and server events, as steps of the whole system
redisEvent ==
    /\ redis_ready \/ redis_error \/ redis_expire
    /\ UNCHANGED <<backendVars, callVars, handlerVars, histVars>>
    /\ UNCHANGED notSyncVars

(***************************************************************************)
(* Each component before it is used: the state its module-level            *)
(* declarations give it.                                                   *)
(***************************************************************************)
NoOp == [name |-> "none", down |-> FALSE, ret |-> Null, threw |-> FALSE]
NoProof == [found |-> FALSE, path |-> <<>>]
NoTree == [root |-> [hash |-> Null], treeLevels |-> <<>>]

\* nothing written to be read back
NoTrip == [pc |-> "start", setter |-> "none", key |-> <<>>, value |-> Null,
           written |-> FALSE, kept |-> FALSE, down |-> FALSE, got |-> Null]

\* who may be inside a function of dbSyncService: the build, and the
\* handler of a route
Callers == {"build", "route"}

NoPgCall == [name |-> "none", pc |-> "idle"]

\* the socket of a client that never lost its connection
NoSocket == [state |-> "ready", retries |-> 0, delay |-> 0, serverUp |-> TRUE]

OpAtRest ==
    /\ op = NoOp
    /\ trip = NoTrip
    /\ pgCalls = [c \in Callers |-> NoPgCall]
    /\ checkedOut = 0
    /\ socket = NoSocket

\* server.js outside a shutdown; the pool is left out of the other
\* specifications
\* no GET /health answered yet
NoHealth == [statusCode |-> 0, status |-> "none"]

\* gracefulShutdown not called yet
NoShutdownCalls == [received |-> 0, ran |-> 0, last |-> "none"]

ServerAtRest ==
    /\ isShuttingDown = FALSE
    /\ dbPool = FALSE
    /\ shutdown = "none"
    /\ health = NoHealth
    /\ shutdownCalls = NoShutdownCalls

\* let isRunning = false; let isBuildInProgress = false; let buildCount = 0
\* no POST /health/build answered yet
NoResponse == [status |-> 0, success |-> FALSE, result |-> "none", build |-> 0]

SchedAtRest ==
    /\ isRunning = FALSE
    /\ cronJob = FALSE
    /\ immediates = 0
    /\ isBuildInProgress = FALSE
    /\ buildCount = 0
    /\ lastBuildAttempt = 0
    /\ tick = "none"
    /\ builds = <<>>
    /\ manual = "none"
    /\ response = NoResponse

\* handleCli not started
CliQuiet ==
    /\ proofModule = "proof"
    /\ dataBlocks = <<>>
    /\ filesMode = FALSE
    /\ verify = Null
    /\ built = NoTree
    /\ cliProof = NoProof
    /\ expectedRoot = Null
    /\ isValid = FALSE
    /\ cliPc = "start"

\* let lastBuildResult = null
NoBuildResult ==
    [build |-> 0, success |-> FALSE, rootHash |-> Null, filesProcessed |-> 0,
     written |-> FALSE, error |-> Null, errorType |-> Null]

\* the first call of buildAndSync, nothing thrown
FirstBuildCall == [n |-> 1, error |-> Null]

\* no scan of the source directory, which is empty
ScanAtRest ==
    /\ readdir = [d \in {"root", "dir"} |-> <<>>]
    /\ BATCH_SIZE = 1
    /\ files = <<>>
    /\ scanPc = "none"
    /\ lastBuildResult = NoBuildResult
    /\ buildCall = FirstBuildCall

\* no second run
RunAtRest ==
    /\ ScanAtRest
    /\ otherBlocks = <<>>
    /\ rebuilt = NoTree
    /\ runPc = "none"

\* neither the CLI nor a second run nor a scan
CliAtRest == RunAtRest /\ CliQuiet

\* the storage sync with an empty storage, before its first call
SyncQuiet ==
    /\ leafCount = 1
    /\ s3Trees = {}
    /\ s3Roots = [h \in RootHashes |-> NoRecord]
    /\ s3Latest = Null
    /\ merkle_roots = {}
    /\ merkle_tree_data = {}
    /\ pgTx = NoTx
    /\ seq = 0
    /\ pc = "idle"
    /\ tree = Null
    /\ latestRootHash = Null
    /\ result = "none"
    /\ wpc = "idle"
    /\ wLatest = Null
    /\ hCall = NewCall
    /\ hPrev = NoCall
    /\ hAccepted = {}
    /\ refRoots = {}
    /\ refLatest = Null
    /\ refResult = "none"

\* the storage sync with an empty S3 storage
SyncAtRest == storageMode = "s3" /\ SyncQuiet

(***************************************************************************)
(* Specification of the storage sync.                                      *)
(***************************************************************************)
InitSync ==
    /\ OpAtRest /\ SchedAtRest /\ CliAtRest /\ ServerAtRest
    /\ storageMode \in {"s3", "postgresql"}
    /\ \/ \* a storage that holds nothing yet
          /\ s3Trees = {}
          /\ s3Roots = [h \in RootHashes |-> NoRecord]
          /\ s3Latest = Null
          /\ merkle_roots = {}
          /\ merkle_tree_data = {}
          /\ hAccepted = {}
       \/ \* a storage in which an earlier run of the service committed A
          /\ s3Trees = IF storageMode = "s3" THEN {"A"} ELSE {}
          /\ s3Roots = [h \in RootHashes |->
                          IF storageMode = "s3" /\ h = "A"
                          THEN OldRecord ELSE NoRecord]
          /\ s3Latest = IF storageMode = "s3" THEN "A" ELSE Null
          /\ merkle_roots = IF storageMode = "s3" THEN {}
                            ELSE {[id |-> OldRecord.id, root_hash |-> "A",
                                   created_at |-> OldRecord.createdAt]}
          /\ merkle_tree_data = IF storageMode = "s3" THEN {}
                                ELSE {OldRecord.id}
          /\ hAccepted = {"A"}
    /\ pgTx = NoTx
    /\ seq = 0
    /\ leafCount = 1
    /\ redisClient \in BOOLEAN
    /\ isConnected \in {FALSE, redisClient}
    /\ cache = EmptyCache
    /\ pc = "idle"
    /\ tree = Null
    /\ latestRootHash = Null
    /\ result = "none"
    /\ wpc = "idle"
    /\ wLatest = Null
    /\ hCall = NewCall
    /\ hPrev = NoCall
    /\ refRoots = CommittedHashes
    /\ refLatest = BackendLatest
    /\ refResult = "none"

NextSync ==
    \/ \E t \in RootHashes \cup {Null} : syncTree_call(t)
    \/ getLatestRootHash_cache
    \/ getLatestRootHash_storage
    \/ getLatestRootHash_s3StreamError
    \/ getLatestRootHash_fail
    \/ getLatestRootHash_setCache
    \/ storeTreeData_putTree
    \/ storeTreeData_putRecord
    \/ storeTreeData_updateLatestRoot
    \/ storeTreeData_fail
    \/ insertNewTreePostgreSQL_begin
    \/ insertNewTreePostgreSQL_insertRoot
    \/ insertNewTreePostgreSQL_insertData
    \/ insertNewTreePostgreSQL_commit
    \/ insertNewTreePostgreSQL_fail
    \/ syncTree_setLatestRootHash
    \/ syncTree_setTreeMetadata
    \/ syncTree_return
    \/ clearCache
    \/ warmupCache_get
    \/ warmupCache_read
    \/ warmupCache_set
    \/ warmupCache_meta
    \/ redisEvent

SpecSync == InitSync /\ [][NextSync]_vars

(***************************************************************************)
(* syncTree handed trees whose leafCount may be missing or zero.           *)
(***************************************************************************)
InitStore ==
    /\ OpAtRest /\ SchedAtRest /\ CliAtRest /\ ServerAtRest
    /\ storageMode \in {"s3", "postgresql"}
    /\ s3Trees = {}
    /\ s3Roots = [h \in RootHashes |-> NoRecord]
    /\ s3Latest = Null
    /\ merkle_roots = {}
    /\ merkle_tree_data = {}
    /\ hAccepted = {}
    /\ pgTx = NoTx
    /\ seq = 0
    /\ leafCount \in {Undefined, 0, 1}
    /\ redisClient \in BOOLEAN
    /\ isConnected = redisClient
    /\ cache = EmptyCache
    /\ pc = "idle"
    /\ tree = Null
    /\ latestRootHash = Null
    /\ result = "none"
    /\ wpc = "idle"
    /\ wLatest = Null
    /\ hCall = NewCall
    /\ hPrev = NoCall
    /\ refRoots = CommittedHashes
    /\ refLatest = BackendLatest
    /\ refResult = "none"

SpecStore == InitStore /\ [][NextSync]_vars

\* C24: a call of syncTree without a root hash, or with a leafCount that is
\* missing or zero, ends with an error, whatever its kind, and writes
\* nothing to the storage, with S3 and with PostgreSQL
C24_InvalidRejected ==
    [][tree' = Null \/ leafCount < 1
         => /\ UNCHANGED <<s3Trees, s3Roots, s3Latest, merkle_roots,
                           merkle_tree_data>>
            /\ pc # "return" /\ pc' = "return"
                 => result' \notin {"written", "unchanged"}]_vars

(***************************************************************************)
(* Properties of the storage sync.                                         *)
(***************************************************************************)
\* the call at its return point, with no storage fault during the call
Returned == pc = "return" /\ tree # Null /\ ~hCall.fault

\* the call is the second of two successive calls with the same tree, the
\* storage having worked during both
SecondOfTwo == Returned /\ hPrev.tree = tree /\ ~hPrev.fault

\* storeTree completions of a call with the given result
Writes(res) == IF res = "written" THEN 1 ELSE 0

\* C1: a call whose latest root read equals the root of its tree returns
\* "unchanged" and writes nothing to the storage; of two successive runs
\* over the same tree the first returns written=true, the second returns
\* "unchanged", and the count of stored trees grows by exactly one
C1_ChangeGate ==
    /\ Returned /\ latestRootHash = tree
          => result = "unchanged" /\ seq = hCall.seq0
                /\ TotalTrees = hCall.total0
    /\ SecondOfTwo /\ hPrev.result = "written"
          => result = "unchanged" /\ TotalTrees = hPrev.total0 + 1

\* C4: every call returns what the cache-less syncTree returns for it, and
\* leaves the committed roots and the latest root the cache-less run leaves
C4_PureAccelerator ==
    Returned => /\ result = refResult
                /\ CommittedHashes = refRoots
                /\ BackendLatest = refLatest

\* C5: the value under merkle:latest_root_hash, when present, is a root hash
\* the storage accepted: a storeTree for it completed (or an earlier run left
\* it) and its root record is committed
C5_CacheLatestAccepted ==
    cache[KeyLatest] # Null =>
        /\ cache[KeyLatest] \in hAccepted
        /\ cache[KeyLatest] \in CommittedHashes

\* a root stored by this run is advertised by the cache
C5_Witness == cache[KeyLatest] = "B" /\ "B" \in hAccepted

\* C6 as stated: a call whose storage write failed has written no cache key
C6_CacheUntouched ==
    pc = "return" /\ result = "store_failed"
        => hCall.cw = {} /\ hCall.mw = {}

\* C6 amended: a call whose storage write failed throws, has written neither
\* the root of its tree nor its metadata to the cache, and the only key it
\* may have written is merkle:latest_root_hash, with the latest root it read
\* from the storage before the write
C6_FailedWriteKeepsCache ==
    pc = "return" /\ result = "store_failed"
        => /\ hCall.mw = {}
           /\ tree \notin hCall.cw
           /\ hCall.cw \subseteq {latestRootHash}
           /\ cache[KeyLatest] # tree \/ tree \in hAccepted

\* the storage write failed after the read-through populated the cache
C6_Witness ==
    /\ pc = "return" /\ result = "store_failed"
    /\ latestRootHash # Null /\ hCall.cw = {latestRootHash}

\* C7: two successive calls with the same tree, the first of which brings a
\* root that is not the latest, make exactly one storage write and at most
\* one update of merkle:latest_root_hash
C7_SyncIdempotent ==
    SecondOfTwo /\ hPrev.fresh
        => /\ Writes(hPrev.result) + Writes(result) = 1
           /\ hPrev.upd + Cardinality(hCall.cw) <= 1

\* C9: once storeTree has returned or failed, a tree body is stored exactly
\* for the root hashes that have a root record
C9_RecordBodyAtomic ==
    pc \in {"idle", "return"} =>
        /\ \A h \in RootHashes : h \in s3Trees <=> s3Roots[h] # NoRecord
        /\ merkle_tree_data = {r.id : r \in merkle_roots}

\* C10: no step of a run in which the storage works creates a second record
\* for a root hash or changes the record of a root hash that has one
C10_RecordsImmutable ==
    [][~hCall.fault =>
          /\ \A h \in RootHashes :
                RecordOf(h) # NoRecord => RecordOf(h)' = RecordOf(h)
          /\ \A r, q \in merkle_roots' :
                r.root_hash = q.root_hash => r = q]_vars

\* the commit time of the latest root of the storage (-1 when it has none)
LatestCommitTime ==
    IF BackendLatest = Null THEN NoRecord.createdAt
    ELSE RecordOf(BackendLatest).createdAt

CommitCached == pc = "return" /\ result = "written" /\ tree \in hCall.cw

\* C27: once a syncTree that committed a root has written it to the cache,
\* the root under merkle:latest_root_hash, when the key is present, is the
\* latest root of the storage, whatever warmupCache and clearCache do
\* beside the call
C27_CacheCatchesUp ==
    CommitCached /\ cache[KeyLatest] # Null
        => cache[KeyLatest] = BackendLatest

\* C28: when syncTree returns without an error, written true or false, and
\* the storage answered every request of the call, the latest root of the
\* storage is the root of the tree of the call
C28_SyncPostcondition ==
    Returned /\ result \in {"written", "unchanged"} => BackendLatest = tree

\* C31: in S3 mode the storage read of getLatestRootHash gives null to
\* syncTree only when the latest pointer does not exist; a read of an
\* existing pointer that fails is an error of the call
C31_NullOnlyWhenAbsent ==
    [][/\ storageMode = "s3"
       /\ pc = "getBackend"
       /\ latestRootHash' = Null
       /\ result' # "read_failed"
       => s3Latest = Null]_vars

(***************************************************************************)
(* The builds of a directory that has stopped changing: every build hands  *)
(* the same tree to syncTree, the storage answers every request, the cache *)
(* is disabled (REDIS_ENABLED=false), and the storage may hold the roots   *)
(* of earlier runs of the service.                                         *)
(***************************************************************************)
\* the roots earlier runs committed, oldest first
Histories == {<<>>, <<"A">>, <<"B">>, <<"A", "B">>, <<"B", "A">>}

\* the record of the i-th commit of a history
HistoryRecord(i) == [id |-> i - 1, createdAt |-> i - 1]

\* the place of h in a history (0 when it was never committed)
CommitOf(history, h) ==
    IF \E i \in DOMAIN history : history[i] = h
    THEN CHOOSE i \in DOMAIN history : history[i] = h
    ELSE 0

InitSettle ==
    /\ OpAtRest /\ SchedAtRest /\ CliAtRest /\ ServerAtRest
    /\ storageMode \in {"s3", "postgresql"}
    /\ \E history \in Histories :
          LET committed == {history[i] : i \in DOMAIN history} IN
          /\ s3Trees = IF storageMode = "s3" THEN committed ELSE {}
          /\ s3Roots = [h \in RootHashes |->
                          IF storageMode = "s3" /\ h \in committed
                          THEN HistoryRecord(CommitOf(history, h))
                          ELSE NoRecord]
          /\ s3Latest = IF storageMode = "s3" /\ history # <<>>
                        THEN history[Len(history)] ELSE Null
          /\ merkle_roots =
                IF storageMode = "s3" THEN {}
                ELSE {[id |-> HistoryRecord(i).id, root_hash |-> history[i],
                       created_at |-> HistoryRecord(i).createdAt] :
                      i \in DOMAIN history}
          /\ merkle_tree_data =
                IF storageMode = "s3" THEN {}
                ELSE {HistoryRecord(i).id : i \in DOMAIN history}
          /\ hAccepted = committed
          /\ seq = IF history = <<>> THEN 0 ELSE Len(history) - 1
    /\ pgTx = NoTx
    /\ leafCount = 1
    /\ redisClient = FALSE
    /\ isConnected = FALSE
    /\ cache = EmptyCache
    /\ pc = "idle"
    /\ tree = Null
    /\ latestRootHash = Null
    /\ result = "none"
    /\ wpc = "idle"
    /\ wLatest = Null
    /\ hCall = NewCall
    /\ hPrev = NoCall
    /\ refRoots = CommittedHashes
    /\ refLatest = BackendLatest
    /\ refResult = "none"

\* executeBuild: buildAndSync hands the tree of the directory to syncTree;
\* the directory is what it was at the build before
executeBuild_syncTree ==
    /\ \E t \in RootHashes :
          /\ hPrev.tree \in {Null, t}
          /\ syncTree_call(t)

\* the steps of a build
BuildStep ==
    \/ executeBuild_syncTree
    \/ getLatestRootHash_cache
    \/ getLatestRootHash_storage
    \/ getLatestRootHash_setCache
    \/ storeTreeData_putTree
    \/ storeTreeData_putRecord
    \/ storeTreeData_updateLatestRoot
    \/ insertNewTreePostgreSQL_begin
    \/ insertNewTreePostgreSQL_insertRoot
    \/ insertNewTreePostgreSQL_insertData
    \/ insertNewTreePostgreSQL_commit
    \/ syncTree_setLatestRootHash
    \/ syncTree_setTreeMetadata
    \/ syncTree_return

NextSettle == BuildStep

\* the cron job keeps calling executeBuild and every await of a build
\* settles
SpecSettle == InitSettle /\ [][NextSettle]_vars /\ WF_vars(BuildStep)

\* C29: once the builds hand the same root r to syncTree, the latest root of
\* the storage becomes r and stays r, and from then on every build returns
\* written=false, whatever roots were committed before, r among them
C29_EventualCommit ==
    \A r \in RootHashes :
        [](tree = r =>
              <>[](/\ BackendLatest = r
                   /\ pc = "return" => result = "unchanged"))

\* C30: in S3 mode the latest pointer, when it exists, names a root whose
\* tree body and root record are both stored, in every state, those left by
\* a putObject that failed between two writes of storeTreeData included
C30_PointerAfterObjects ==
    storageMode = "s3" /\ s3Latest # Null
        => s3Latest \in s3Trees /\ s3Roots[s3Latest] # NoRecord

\* storeTreeData wrote the body of B and failed before its record, and the
\* pointer still names A
C30_Witness ==
    /\ storageMode = "s3"
    /\ pc = "return" /\ result = "store_failed" /\ tree = "B"
    /\ "B" \in s3Trees /\ s3Roots["B"] = NoRecord
    /\ s3Latest = "A"

(***************************************************************************)
(* Specification of redisService: every exported cache operation, called   *)
(* with any key and value, in any state of the connection.                 *)
(***************************************************************************)
\* the values the service stores: root hashes and a build status
CacheValues == RootHashes \cup {"building"}

\* one call of an operation: r is what the operation gives
called(name, r, clientOk) ==
    /\ op' = [name |-> name, down |-> ~redisAvailable \/ ~clientOk,
              ret |-> r.ret, threw |-> r.threw]
    /\ cache' = r.cache
    /\ UNCHANGED <<trip, pgCalls, checkedOut, socket>>
    /\ UNCHANGED <<backendVars, redisClient, isConnected, callVars,
                   handlerVars, histVars, schedVars, proofVars,
                   serverVars, argVars, runVars, scanVars>>

call_get ==
    /\ \E key \in CacheKeys, clientOk \in BOOLEAN :
           called("get", get(key, clientOk), clientOk)

call_set ==
    /\ \E key \in CacheKeys, value \in CacheValues, clientOk \in BOOLEAN :
           called("set", set(key, value, clientOk), clientOk)

call_del ==
    /\ \E key \in CacheKeys, clientOk \in BOOLEAN :
           called("del", del(key, clientOk), clientOk)

call_exists ==
    /\ \E key \in CacheKeys, clientOk \in BOOLEAN :
           called("exists", exists(key, clientOk), clientOk)

call_invalidateCache ==
    /\ \E clientOk \in BOOLEAN :
           called("invalidateCache", invalidateCache(clientOk), clientOk)

call_getLatestRootHash ==
    /\ \E clientOk \in BOOLEAN :
           called("getLatestRootHash", redisService_getLatestRootHash(clientOk),
                  clientOk)

call_setLatestRootHash ==
    /\ \E rootHash \in RootHashes, clientOk \in BOOLEAN :
           called("setLatestRootHash",
                  redisService_setLatestRootHash(rootHash, clientOk), clientOk)

call_getTreeMetadata ==
    /\ \E rootHash \in RootHashes, clientOk \in BOOLEAN :
           called("getTreeMetadata",
                  redisService_getTreeMetadata(rootHash, clientOk), clientOk)

call_setTreeMetadata ==
    /\ \E rootHash \in RootHashes, clientOk \in BOOLEAN :
           called("setTreeMetadata",
                  redisService_setTreeMetadata(rootHash, rootHash, clientOk),
                  clientOk)

call_setBuildStatus ==
    /\ \E clientOk \in BOOLEAN :
           called("setBuildStatus",
                  redisService_setBuildStatus("building", clientOk), clientOk)

call_getBuildStatus ==
    /\ \E clientOk \in BOOLEAN :
           called("getBuildStatus", redisService_getBuildStatus(clientOk),
                  clientOk)

InitCache ==
    /\ SyncAtRest /\ SchedAtRest /\ CliAtRest /\ OpAtRest /\ ServerAtRest
    /\ redisClient \in BOOLEAN
    /\ isConnected \in {FALSE, redisClient}
    /\ cache = EmptyCache

NextCache ==
    \/ call_get
    \/ call_set
    \/ call_del
    \/ call_exists
    \/ call_invalidateCache
    \/ call_getLatestRootHash
    \/ call_setLatestRootHash
    \/ call_getTreeMetadata
    \/ call_setTreeMetadata
    \/ call_setBuildStatus
    \/ call_getBuildStatus
    \/ redisEvent

SpecCache == InitCache /\ [][NextCache]_vars

(***************************************************************************)
(* The reconnection of the Redis client.  When the socket is lost the      *)
(* client asks reconnectStrategy(retries) how long to wait before the next *)
(* attempt, retries being the attempts that failed since the connection    *)
(* was lost; a number is a delay in milliseconds, an Error makes the       *)
(* client give up: it closes and attempts no further connection.  The      *)
(* Redis server goes down and comes back on its own.                       *)
(***************************************************************************)
RetryLimit == 10
RetryStep == 100
RetryCap == 3000

Min(a, b) == IF a < b THEN a ELSE b

\* socket.reconnectStrategy of clientConfig
reconnectStrategy(retries) ==
    IF retries > RetryLimit
    THEN [error |-> TRUE, delay |-> 0]
    ELSE [error |-> FALSE, delay |-> Min(retries * RetryStep, RetryCap)]

reconnectFrame ==
    UNCHANGED <<op, trip, pgCalls, checkedOut, redisClient, cache, backendVars,
                callVars, handlerVars, histVars, schedVars, proofVars,
                serverVars, argVars, runVars, scanVars>>

\* the Redis server stops; a connected client loses its socket:
\* on('error') sets isConnected = false
server_down ==
    /\ socket.serverUp
    /\ IF socket.state = "ready"
       THEN /\ socket' = [socket EXCEPT !.serverUp = FALSE, !.state = "lost",
                                        !.retries = 0]
            /\ isConnected' = FALSE
       ELSE /\ socket' = [socket EXCEPT !.serverUp = FALSE]
            /\ UNCHANGED isConnected
    /\ reconnectFrame

\* the Redis server is back
server_up ==
    /\ ~socket.serverUp
    /\ socket' = [socket EXCEPT !.serverUp = TRUE]
    /\ UNCHANGED isConnected
    /\ reconnectFrame

\* the client asks the strategy: on('reconnecting') and a timer, or the
\* Error, with which the client closes
reconnectStrategy_call ==
    /\ socket.state = "lost"
    /\ LET retryIn == reconnectStrategy(socket.retries)
       IN socket' = IF retryIn.error
                    THEN [socket EXCEPT !.state = "closed"]
                    ELSE [socket EXCEPT !.state = "waiting",
                                        !.delay = retryIn.delay]
    /\ isConnected' = FALSE
    /\ reconnectFrame

\* the timer fires and the client connects: on('ready') sets
\* isConnected = true, or the attempt fails and on('error') clears it
socket_connect ==
    /\ socket.state = "waiting"
    /\ IF socket.serverUp
       THEN /\ socket' = [socket EXCEPT !.state = "ready", !.retries = 0]
            /\ isConnected' = TRUE
       ELSE /\ socket' = [socket EXCEPT !.state = "lost",
                                        !.retries = socket.retries + 1]
            /\ isConnected' = FALSE
    /\ reconnectFrame

\* after init with REDIS_ENABLED: the client is connected
InitReconnect ==
    /\ SyncAtRest /\ SchedAtRest /\ CliAtRest /\ OpAtRest /\ ServerAtRest
    /\ redisClient = TRUE
    /\ isConnected = TRUE
    /\ cache = EmptyCache

NextReconnect ==
    \/ server_down
    \/ server_up
    \/ reconnectStrategy_call
    \/ socket_connect
    \/ call_getLatestRootHash

\* the timer of a delay fires, and the strategy is asked in the turn in
\* which the socket is lost
SpecReconnect ==
    /\ InitReconnect
    /\ [][NextReconnect]_vars
    /\ WF_vars(reconnectStrategy_call)
    /\ WF_vars(socket_connect)

\* C40: the delay before a reconnection attempt is never more than 3 s and
\* doubles from one failed attempt to the next up to that cap; the client
\* goes on attempting to reconnect after the error of the tenth failure, so
\* that once the server is back for good the cache is connected again
C40_ReconnectBackoff ==
    /\ [](socket.delay <= RetryCap)
    /\ [][socket.state = "lost" /\ socket.retries >= 2
            /\ socket'.state = "waiting"
            => socket'.delay = Min(2 * socket.delay, RetryCap)]_vars
    /\ <>[](socket.serverUp) => <>[]isConnected

(***************************************************************************)
(* A value written by a setter and read back by its getter, as              *)
(* testRedisIntegration does for set/get and the three typed pairs, with    *)
(* the connection events, expiries and deletions that may come between.     *)
(***************************************************************************)
\* the getter that reads what a setter wrote
GetterOf == [set |-> "get", setLatestRootHash |-> "getLatestRootHash",
             setTreeMetadata |-> "getTreeMetadata",
             setBuildStatus |-> "getBuildStatus"]

\* the keys a setter writes
KeysOf(setter) ==
    CASE setter = "set" -> CacheKeys
      [] setter = "setLatestRootHash" -> {KeyLatest}
      [] setter = "setTreeMetadata" -> {KeyMeta(h) : h \in RootHashes}
      [] setter = "setBuildStatus" -> {KeyBuild}

\* the four setters; the envelope of a typed setter is the payload it
\* carries (rootHash, the metadata, the status): the timestamp and cachedAt
\* it adds are no part of the comparison
written(setter, key, value, clientOk) ==
    CASE setter = "set" -> set(key, value, clientOk)
      [] setter = "setLatestRootHash" ->
            redisService_setLatestRootHash(value, clientOk)
      [] setter = "setTreeMetadata" ->
            redisService_setTreeMetadata(key[2], value, clientOk)
      [] setter = "setBuildStatus" ->
            redisService_setBuildStatus(value, clientOk)

\* the four getters
readBack(getter, key, clientOk) ==
    CASE getter = "get" -> get(key, clientOk)
      [] getter = "getLatestRootHash" ->
            redisService_getLatestRootHash(clientOk)
      [] getter = "getTreeMetadata" ->
            redisService_getTreeMetadata(key[2], clientOk)
      [] getter = "getBuildStatus" -> redisService_getBuildStatus(clientOk)

tripFrame ==
    UNCHANGED <<op, pgCalls, checkedOut, socket, backendVars, callVars, handlerVars, histVars, schedVars,
                proofVars, serverVars, argVars, runVars, scanVars>>

\* await redisService.set(testKey, testValue, 60) and the typed setters;
\* a later write goes to the same key
test_set ==
    /\ trip.pc \in {"start", "written"}
    /\ \E setter \in DOMAIN GetterOf, key \in CacheKeys, value \in JsValues,
          clientOk \in BOOLEAN :
          LET r == written(setter, key, value, clientOk)
          IN  /\ key \in KeysOf(setter)
              /\ trip.pc = "written" => key = trip.key
              /\ setter = "setLatestRootHash" => value \in RootHashes
              /\ cache' = r.cache
              /\ trip' = [pc |-> "written", setter |-> setter, key |-> key,
                          value |-> value, written |-> r.ret,
                          kept |-> r.ret, down |-> FALSE, got |-> Null]
    /\ UNCHANGED <<redisClient, isConnected>>
    /\ tripFrame

\* the entry reaches its TTL, or del(key) or invalidateCache() removes it
test_removed ==
    /\ trip.pc = "written"
    /\ \E clientOk \in BOOLEAN :
          \/ redis_expire
          \/ \E k \in CacheKeys : cache' = del(k, clientOk).cache
                                  /\ UNCHANGED <<redisClient, isConnected>>
          \/ cache' = invalidateCache(clientOk).cache
             /\ UNCHANGED <<redisClient, isConnected>>
    /\ trip' = [trip EXCEPT !.kept = trip.kept /\ cache'[trip.key] # Null]
    /\ tripFrame

\* the connection drops or comes back; the server keeps its keys
test_connection ==
    /\ trip.pc = "written"
    /\ redis_ready \/ redis_error
    /\ UNCHANGED trip
    /\ tripFrame

\* const retrieved = await redisService.get(testKey) and the typed getters
test_get ==
    /\ trip.pc = "written"
    /\ \E clientOk \in BOOLEAN :
          LET r == readBack(GetterOf[trip.setter], trip.key, clientOk) IN
          /\ cache' = r.cache
          /\ trip' = [trip EXCEPT !.pc = "read", !.got = r.ret,
                                  !.down = ~redisAvailable \/ ~clientOk]
    /\ UNCHANGED <<redisClient, isConnected>>
    /\ tripFrame

InitTrip ==
    /\ SyncAtRest /\ SchedAtRest /\ CliAtRest /\ OpAtRest /\ ServerAtRest
    /\ redisClient \in BOOLEAN
    /\ isConnected \in {FALSE, redisClient}
    /\ cache = EmptyCache

NextTrip ==
    \/ test_set
    \/ test_removed
    \/ test_connection
    \/ test_get

SpecTrip == InitTrip /\ [][NextTrip]_vars

Getters == {"get", "getLatestRootHash", "getTreeMetadata", "getBuildStatus"}
Setters == {"set", "del", "exists", "invalidateCache", "setLatestRootHash",
            "setTreeMetadata", "setBuildStatus"}

\* C8: no cache operation throws to its caller; called while the cache is
\* disabled or not connected, or when the client call fails, a getter
\* returns null and set, del, exists, invalidateCache and the typed setters
\* return false
C8_SafeOnOutage ==
    /\ ~op.threw
    /\ op.down /\ op.name \in Getters => op.ret = Null
    /\ op.down /\ op.name \in Setters => op.ret = FALSE

\* a typed setter was called on a connected client whose setEx rejected
C8_Witness ==
    /\ op.name = "setLatestRootHash" /\ op.down
    /\ redisClient /\ isConnected

(***************************************************************************)
(* schedulerService: start, stop, the cron callback, the deferred first    *)
(* run, triggerManualBuild and the builds they start.  Node runs each      *)
(* callback to its first await without interruption, so the test and the   *)
(* assignment of isBuildInProgress in executeBuild are one step.           *)
(***************************************************************************)
\* an executeBuild that is awaiting treeBuilderService.buildAndSync()
InFlight == {i \in DOMAIN builds : builds[i].at = "buildAndSync"}

\* new Date() at an attempt: the attempts are numbered in the order they
\* are made
Now == buildCount + 1

\* executeBuild entered without its isBuildInProgress test
executeBuild_unguarded(origin) ==
    /\ isBuildInProgress' = TRUE
    /\ lastBuildAttempt' = Now
    /\ buildCount' = buildCount + 1
    /\ builds' = Append(builds, [origin |-> origin, at |-> "buildAndSync"])

\* executeBuild that stamps and counts the attempt before its
\* isBuildInProgress test
executeBuild_counting(origin) ==
    /\ lastBuildAttempt' = Now
    /\ buildCount' = buildCount + 1
    /\ IF isBuildInProgress
       THEN UNCHANGED <<isBuildInProgress, builds>>
       ELSE /\ isBuildInProgress' = TRUE
            /\ builds' = Append(builds,
                                [origin |-> origin, at |-> "buildAndSync"])

\* executeBuild up to its await
executeBuild(origin) ==
    IF isBuildInProgress
    THEN \* 'Build already in progress, skipping scheduled execution'
         UNCHANGED <<isBuildInProgress, lastBuildAttempt, buildCount, builds>>
    ELSE /\ isBuildInProgress' = TRUE
         /\ lastBuildAttempt' = Now
         /\ buildCount' = buildCount + 1
         /\ builds' = Append(builds, [origin |-> origin, at |-> "buildAndSync"])

start ==
    /\ immediates < MaxBuilds
    /\ IF isRunning
       THEN UNCHANGED <<isRunning, cronJob, immediates>>
       ELSE /\ cronJob' = TRUE
            /\ isRunning' = TRUE
            /\ immediates' = immediates + 1
    /\ UNCHANGED <<isBuildInProgress, buildCount, lastBuildAttempt, tick,
                   builds, manual, response>>
    /\ UNCHANGED notSchedVars

\* stop that clears isRunning and leaves the cron job scheduled
stop_keepsCronJob ==
    /\ IF ~isRunning
       THEN UNCHANGED <<isRunning, cronJob>>
       ELSE cronJob' = cronJob /\ isRunning' = FALSE
    /\ UNCHANGED <<immediates, isBuildInProgress, buildCount, lastBuildAttempt,
                   tick, builds, manual, response>>
    /\ UNCHANGED notSchedVars

stop ==
    /\ IF ~isRunning
       THEN UNCHANGED <<isRunning, cronJob>>
       ELSE cronJob' = FALSE /\ isRunning' = FALSE
    /\ UNCHANGED <<immediates, isBuildInProgress, buildCount, lastBuildAttempt,
                   tick, builds, manual, response>>
    /\ UNCHANGED notSchedVars

\* cron.schedule(cronExpression, async () => { await executeBuild(); })
cronTick ==
    /\ cronJob
    /\ buildCount < MaxBuilds
    /\ executeBuild("cron")
    /\ tick' = IF isBuildInProgress THEN "dropped" ELSE "started"
    /\ UNCHANGED <<isRunning, cronJob, immediates, manual, response>>
    /\ UNCHANGED notSchedVars

\* setImmediate(() => { executeBuild(); })
immediateRun ==
    /\ immediates > 0
    /\ buildCount < MaxBuilds
    /\ immediates' = immediates - 1
    /\ executeBuild("immediate")
    /\ tick' = IF isBuildInProgress THEN "dropped" ELSE "started"
    /\ UNCHANGED <<isRunning, cronJob, manual, response>>
    /\ UNCHANGED notSchedVars

\* what executeBuild resolves to: it has no return statement, and its catch
\* does not rethrow what buildAndSync threw
executeBuild_result == "undefined"

\* POST /health/build after triggerManualBuild resolved for
\* build i: res.json, status 200
postBuild_json(resolved, i) ==
    [status |-> 200, success |-> TRUE, result |-> resolved, build |-> i]

\* POST /health/build, catch (error): res.status(500).json
postBuild_catch(error) ==
    [status |-> 500, success |-> FALSE, result |-> error, build |-> 0]

\* the answer of the route that awaits build i, if one does
postBuild_answer(i) ==
    IF builds[i].origin = "manual"
    THEN postBuild_json(executeBuild_result, i)
    ELSE response

\* triggerManualBuild without its own isBuildInProgress test: it resolves
\* whatever executeBuild does
triggerManualBuild_noTest ==
    /\ buildCount < MaxBuilds
    /\ manual' = "started"
    /\ executeBuild("manual")
    /\ UNCHANGED <<isRunning, cronJob, immediates, tick, response>>
    /\ UNCHANGED notSchedVars

\* POST /health/build, called by the route with no build in progress:
\* triggerManualBuild awaits executeBuild, and the route its answer;
\* during a build triggerManualBuild throws and the route answers at once
triggerManualBuild ==
    /\ buildCount < MaxBuilds
    /\ IF isBuildInProgress
       THEN \* throw new Error('Build already in progress')
            /\ manual' = "busy"
            /\ response' = postBuild_catch("Build already in progress")
            /\ UNCHANGED <<isBuildInProgress, lastBuildAttempt, buildCount,
                           builds>>
       ELSE /\ manual' = "started"
            /\ executeBuild("manual")
            /\ UNCHANGED response
    /\ UNCHANGED <<isRunning, cronJob, immediates, tick>>
    /\ UNCHANGED notSchedVars

\* buildAndSync resolves: the log line, then finally { isBuildInProgress = false }
buildAndSync_returns ==
    /\ \E i \in InFlight :
          /\ builds' = [builds EXCEPT ![i].at = "completed"]
          /\ response' = postBuild_answer(i)
    /\ isBuildInProgress' = FALSE
    /\ UNCHANGED <<isRunning, cronJob, immediates, buildCount,
                   lastBuildAttempt, tick, manual>>
    /\ UNCHANGED notSchedVars

\* buildAndSync rejects and executeBuild has neither catch nor finally: the
\* error leaves executeBuild, to the route's catch if a route awaits it
buildAndSync_throws_uncaught ==
    /\ \E i \in InFlight :
          /\ builds' = [builds EXCEPT ![i].at = "failed"]
          /\ response' = IF builds[i].origin = "manual"
                          THEN postBuild_catch("buildAndSync failed")
                          ELSE response
    /\ UNCHANGED <<isRunning, cronJob, immediates, isBuildInProgress,
                   buildCount, lastBuildAttempt, tick, manual>>
    /\ UNCHANGED notSchedVars

\* buildAndSync rejects: catch logs and does not rethrow, then finally
buildAndSync_throws ==
    /\ \E i \in InFlight :
          /\ builds' = [builds EXCEPT ![i].at = "failed"]
          /\ response' = postBuild_answer(i)
    /\ isBuildInProgress' = FALSE
    /\ UNCHANGED <<isRunning, cronJob, immediates, buildCount,
                   lastBuildAttempt, tick, manual>>
    /\ UNCHANGED notSchedVars

InitSched ==
    /\ SyncAtRest /\ CliAtRest /\ OpAtRest /\ SchedAtRest /\ ServerAtRest
    /\ redisClient = FALSE
    /\ isConnected = FALSE
    /\ cache = EmptyCache

NextSched ==
    \/ start
    \/ stop
    \/ cronTick
    \/ immediateRun
    \/ triggerManualBuild
    \/ buildAndSync_returns
    \/ buildAndSync_throws

SpecSched == InitSched /\ [][NextSched]_vars

\* C38: once stop() has returned and until start() is called again, no
\* build starts: with the scheduler stopped and the deferred first run of
\* an earlier start() still pending, neither that run nor a manual trigger
\* enters buildAndSync
C38_NoBuildWhileStopped ==
    [][~isRunning /\ immediates > 0 /\ ~isRunning' => builds' = builds]_vars

\* the promise of buildAndSync settles: its awaits are reads of the source
\* directory and calls of the storage back end
SpecSchedFair ==
    SpecSched /\ WF_vars(buildAndSync_returns \/ buildAndSync_throws)

\* C2: at most one executeBuild is inside buildAndSync at any time, and the
\* flag is set exactly while one is
C2_SingleFlight ==
    /\ Cardinality(InFlight) <= 1
    /\ isBuildInProgress <=> InFlight # {}

\* a manual trigger met the flag while a build started by the cron callback
\* was in flight and the deferred first run was still pending
C2_Witness ==
    /\ InFlight # {}
    /\ \E i \in InFlight : builds[i].origin = "cron"
    /\ manual = "busy"
    /\ immediates > 0

\* C12: a cron tick or the deferred first run that fires while a build is in
\* progress starts no build and leaves the flag, buildCount and
\* lastBuildAttempt as they were; nothing is queued for it: the step that
\* ends the build in flight starts no build and leaves none in flight
C12_TickDropped ==
    [][/\ isBuildInProgress /\ (cronTick \/ immediateRun)
            => /\ tick' = "dropped"
               /\ UNCHANGED <<builds, isBuildInProgress, buildCount,
                              lastBuildAttempt>>
       /\ tick' = "dropped" /\ tick # "dropped" => isBuildInProgress
       /\ InFlight # {} /\ InFlight' # InFlight
            => /\ InFlight' = {}
               /\ ~isBuildInProgress'
               /\ Len(builds') = Len(builds)
               /\ UNCHANGED <<buildCount, lastBuildAttempt, tick>>]_vars

\* a cron tick was dropped during the first build, and that build has ended
\* with no other started
C12_Witness ==
    /\ tick = "dropped"
    /\ cronJob
    /\ Len(builds) = 1 /\ builds[1].at = "completed"
    /\ buildCount = 1 /\ lastBuildAttempt = 1
    /\ ~isBuildInProgress

\* C13: triggerManualBuild during a build throws 'Build already in progress'
\* and leaves builds, isBuildInProgress, buildCount and lastBuildAttempt as
\* they were; with no build in progress it sets the flag the ticks test and
\* starts the one build in flight
C13_ManualBusy ==
    [][/\ triggerManualBuild /\ isBuildInProgress
            => /\ manual' = "busy"
               /\ UNCHANGED <<builds, isBuildInProgress, buildCount,
                              lastBuildAttempt>>
       /\ triggerManualBuild /\ ~isBuildInProgress
            => /\ manual' = "started"
               /\ isBuildInProgress'
               /\ builds' = Append(builds, [origin |-> "manual",
                                            at |-> "buildAndSync"])
               /\ InFlight' = {Len(builds')}
               /\ buildCount' = buildCount + 1
       /\ manual' = "busy" /\ manual # "busy" => isBuildInProgress]_vars

\* a manual trigger started a build, a second one met it and was refused, and
\* a cron tick was dropped on the same flag
C13_Witness ==
    /\ manual = "busy"
    /\ tick = "dropped"
    /\ InFlight # {}
    /\ \A i \in InFlight : builds[i].origin = "manual"
    /\ buildCount = 1

(***************************************************************************)
(* server.js: the service after startServer, and gracefulShutdown, which   *)
(* a signal, an uncaught exception or an unhandled rejection starts.       *)
(* process.exit ends every callback of the process, the builds included.   *)
(***************************************************************************)
\* the process has not called process.exit
Alive == shutdown # "exited"

\* gracefulShutdown from `if (dbPool)` on: await dbPool.end(), or
\* process.exit(0) in the same turn when there is no pool
gracefulShutdown_closePool ==
    shutdown' = IF dbPool THEN "dbPool.end" ELSE "exited"

\* gracefulShutdown up to its first await that waits for the network:
\* the isShuttingDown latch, schedulerService.stop(), redisService.disconnect()
\* setupGracefulShutdown: what calls gracefulShutdown
Triggers == {"SIGTERM", "SIGINT", "uncaughtException", "unhandledRejection"}

\* the calls of gracefulShutdown the process may see
MaxTriggers == 3

\* the body of gracefulShutdown below its first two lines, up to the first
\* await that waits for the network
gracefulShutdown_body ==
    /\ isShuttingDown' = TRUE
    /\ cronJob' = FALSE
    /\ isRunning' = FALSE
    /\ IF redisClient /\ isConnected
       THEN \* await redisClient.disconnect()
            /\ shutdown' = "redisClient.disconnect"
            /\ UNCHANGED isConnected
       ELSE /\ isConnected' = FALSE
            /\ gracefulShutdown_closePool

\* what a call of gracefulShutdown leaves alone
gracefulShutdown_frame ==
    /\ UNCHANGED <<dbPool, health, redisClient, cache, backendVars, callVars,
                   handlerVars, histVars, opVars, proofVars, runVars,
                   scanVars, argVars>>
    /\ UNCHANGED <<immediates, isBuildInProgress, buildCount, lastBuildAttempt,
                   tick, builds, manual, response>>

\* gracefulShutdown without if (isShuttingDown) return
gracefulShutdown_noLatch ==
    /\ Alive
    /\ shutdownCalls.received < MaxTriggers
    /\ \E trigger \in Triggers :
          shutdownCalls' = [received |-> shutdownCalls.received + 1,
                            ran |-> shutdownCalls.ran + 1,
                            last |-> trigger]
    /\ gracefulShutdown_body
    /\ gracefulShutdown_frame

\* a signal or an uncaught error calls gracefulShutdown: the
\* isShuttingDown latch, then schedulerService.stop() and
\* redisService.disconnect()
gracefulShutdown ==
    /\ Alive
    /\ shutdownCalls.received < MaxTriggers
    /\ \E trigger \in Triggers :
          shutdownCalls' = [received |-> shutdownCalls.received + 1,
                            ran |-> IF isShuttingDown THEN shutdownCalls.ran
                                    ELSE shutdownCalls.ran + 1,
                            last |-> trigger]
    /\ IF isShuttingDown
       THEN \* if (isShuttingDown) return
            UNCHANGED <<isShuttingDown, cronJob, isRunning, isConnected,
                        shutdown>>
       ELSE gracefulShutdown_body
    /\ gracefulShutdown_frame

\* redisClient.disconnect() settled: isConnected = false, then the pool
gracefulShutdown_redisDisconnected ==
    /\ shutdown = "redisClient.disconnect"
    /\ isConnected' = FALSE
    /\ gracefulShutdown_closePool
    /\ UNCHANGED <<isShuttingDown, dbPool, health, shutdownCalls, redisClient,
                   cache, backendVars,
                   callVars, handlerVars, histVars, opVars, proofVars, runVars,
                   scanVars, argVars,
                   schedVars>>

\* dbPool.end() settled: process.exit(0)
gracefulShutdown_exit ==
    /\ shutdown = "dbPool.end"
    /\ dbPool' = FALSE
    /\ shutdown' = "exited"
    /\ UNCHANGED <<isShuttingDown, health, shutdownCalls, syncVars, opVars,
                   proofVars, runVars, scanVars, argVars, schedVars>>

\* after startServer: the pool exists with the PostgreSQL back end, Redis is
\* connected or the service runs without it, the scheduler is started and
\* its deferred first run is pending
InitShutdown ==
    /\ SyncQuiet /\ CliAtRest /\ OpAtRest
    /\ storageMode \in {"s3", "postgresql"}
    /\ redisClient \in BOOLEAN
    /\ isConnected = redisClient
    /\ cache = EmptyCache
    /\ isShuttingDown = FALSE
    /\ dbPool = (storageMode = "postgresql")
    /\ shutdown = "none"
    /\ health = NoHealth
    /\ shutdownCalls = NoShutdownCalls
    /\ isRunning = TRUE
    /\ cronJob = TRUE
    /\ immediates = 1
    /\ isBuildInProgress = FALSE
    /\ buildCount = 0
    /\ lastBuildAttempt = 0
    /\ tick = "none"
    /\ builds = <<>>
    /\ manual = "none"
    /\ response = NoResponse

NextShutdown ==
    \/ Alive /\ cronTick
    \/ Alive /\ immediateRun
    \/ Alive /\ triggerManualBuild
    \/ Alive /\ buildAndSync_returns
    \/ Alive /\ buildAndSync_throws
    \/ gracefulShutdown
    \/ gracefulShutdown_redisDisconnected
    \/ gracefulShutdown_exit

SpecShutdown == InitShutdown /\ [][NextShutdown]_vars

\* C37: SIGTERM, SIGINT, an uncaught exception and an unhandled rejection
\* all call gracefulShutdown, whose body runs at most once: the first call
\* sets the latch and runs it whatever the trigger; a call that finds the
\* latch set returns at once, leaving the scheduler, the Redis connection,
\* the pool and the progress of the shutdown as they are
C37_ShutdownOnce ==
    /\ [](shutdownCalls.ran <= 1)
    /\ [](isShuttingDown <=> shutdownCalls.ran = 1)
    /\ [][shutdownCalls' # shutdownCalls
            => IF isShuttingDown
               THEN UNCHANGED <<isShuttingDown, schedVars, cacheVars, dbPool,
                                shutdown>>
               ELSE /\ isShuttingDown'
                    /\ ~isRunning' /\ ~cronJob'
                    /\ shutdown' # "none"]_vars

\* SIGINT arrived while the shutdown SIGTERM started was waiting for
\* dbPool.end(), and a rejection after that
C37_Witness ==
    /\ shutdown = "dbPool.end"
    /\ shutdownCalls = [received |-> 3, ran |-> 1,
                        last |-> "unhandledRejection"]


\* build i is over: its executeBuild went through finally
Settled(i) == i \in DOMAIN builds /\ builds[i].at \in {"completed", "failed"}

C16_FailureContinues ==
    [][/\ \A i \in InFlight :
            /\ Settled(i)' => ~isBuildInProgress'
            /\ builds'[i].at = "failed"
                 => /\ UNCHANGED <<isRunning, cronJob>>
                    /\ builds[i].origin = "manual" => response'.status = 200
       /\ /\ cronTick
          /\ InFlight = {}
          /\ \E i \in DOMAIN builds : builds[i].at = "failed"
          => /\ isBuildInProgress'
             /\ builds' = Append(builds, [origin |-> "cron",
                                          at |-> "buildAndSync"])]_vars

\* the first build failed, the scheduler is still running, and the cron tick
\* that followed has a build in flight
C16_Witness ==
    /\ isRunning /\ cronJob
    /\ Len(builds) = 2
    /\ builds[1].at = "failed"
    /\ builds[2] = [origin |-> "cron", at |-> "buildAndSync"]
    /\ isBuildInProgress

\* C17: graceful shutdown stops the cron job first, and while a build is in
\* flight it has closed neither the Redis connection nor the pool and the
\* process has not exited
C17_ShutdownOrder ==
    /\ isShuttingDown => ~cronJob /\ ~isRunning
    /\ InFlight # {} => shutdown = "none"
    /\ shutdown = "exited" => ~isConnected /\ ~dbPool

(***************************************************************************)
(* The clients of the pg Pool.  Each PostgreSQL function of dbSyncService  *)
(* checks a client out with dbPool.connect(), runs its queries on it and   *)
(* releases it; a query may reject (the connection is lost, the statement  *)
(* is refused).  The build and a route handler may be inside such a        *)
(* function at the same time.  The pool hands out PG_POOL_SIZE clients.    *)
(***************************************************************************)
PG_POOL_SIZE == 3

\* the functions that run one query inside try { } finally { release }
PgReads == {"getLatestRootHashPostgreSQL", "getTreeByRootHashPostgreSQL",
            "getRecentRootsPostgreSQL", "getStatsPostgreSQL"}

PgOperations == PgReads \cup {"insertNewTreePostgreSQL", "testConnection"}

\* the first statement a function runs on its client
firstQuery(name) == IF name = "insertNewTreePostgreSQL" THEN "BEGIN"
                    ELSE "query"

\* the statement insertNewTreePostgreSQL runs after the given one
nextQuery(statement) ==
    CASE statement = "BEGIN" -> "INSERT merkle_roots"
      [] statement = "INSERT merkle_roots" -> "INSERT merkle_tree_data"
      [] statement = "INSERT merkle_tree_data" -> "COMMIT"
      [] statement = "COMMIT" -> "idle"

poolFrame ==
    UNCHANGED <<op, trip, socket, syncVars, schedVars, proofVars, serverVars, argVars,
                runVars, scanVars>>

\* the function returns or throws: the caller is outside it
settled(c) == pgCalls' = [pgCalls EXCEPT ![c] = NoPgCall]

\* client.release()
client_release == checkedOut' = checkedOut - 1

\* const client = await dbPool.connect(), which waits while every client
\* of the pool is checked out
dbPool_connect ==
    /\ \E c \in Callers, name \in PgOperations :
          /\ pgCalls[c].pc = "idle"
          /\ checkedOut < PG_POOL_SIZE
          /\ checkedOut' = checkedOut + 1
          /\ pgCalls' = [pgCalls EXCEPT ![c] = [name |-> name,
                                                 pc |-> firstQuery(name)]]
    /\ poolFrame

\* the four reads: try { await client.query(...) } finally { release }
query_finally ==
    /\ \E c \in Callers :
          /\ pgCalls[c].name \in PgReads
          /\ pgCalls[c].pc = "query"
          /\ settled(c)
          /\ client_release
    /\ poolFrame

\* testConnection: await client.query('SELECT NOW()'); client.release();
\* a rejected query goes to catch (error), which returns connected: false
testConnection_query ==
    /\ \E c \in Callers, rejected \in BOOLEAN :
          /\ pgCalls[c].name = "testConnection"
          /\ pgCalls[c].pc = "query"
          /\ settled(c)
          /\ IF rejected THEN UNCHANGED checkedOut ELSE client_release
    /\ poolFrame

\* insertNewTreePostgreSQL: BEGIN, the two INSERTs, COMMIT; a rejected
\* statement goes to catch (error); after COMMIT, finally { release }
insertNewTreePostgreSQL_query ==
    /\ \E c \in Callers, rejected \in BOOLEAN :
          /\ pgCalls[c].name = "insertNewTreePostgreSQL"
          /\ pgCalls[c].pc \notin {"idle", "ROLLBACK"}
          /\ IF rejected
             THEN /\ pgCalls' = [pgCalls EXCEPT ![c].pc = "ROLLBACK"]
                  /\ UNCHANGED checkedOut
             ELSE IF nextQuery(pgCalls[c].pc) = "idle"
                  THEN settled(c) /\ client_release
                  ELSE /\ pgCalls' = [pgCalls EXCEPT
                                        ![c].pc = nextQuery(pgCalls[c].pc)]
                       /\ UNCHANGED checkedOut
    /\ poolFrame

\* catch (error) { await client.query('ROLLBACK'); throw error }
\* finally { client.release() }, whether ROLLBACK rejects or not
insertNewTreePostgreSQL_catch ==
    /\ \E c \in Callers :
          /\ pgCalls[c].name = "insertNewTreePostgreSQL"
          /\ pgCalls[c].pc = "ROLLBACK"
          /\ settled(c)
          /\ client_release
    /\ poolFrame

InitPool ==
    /\ SyncQuiet /\ CliAtRest /\ OpAtRest /\ SchedAtRest
    /\ storageMode = "postgresql"
    /\ redisClient = FALSE
    /\ isConnected = FALSE
    /\ cache = EmptyCache
    /\ isShuttingDown = FALSE
    /\ dbPool = TRUE
    /\ shutdown = "none"
    /\ health = NoHealth
    /\ shutdownCalls = NoShutdownCalls

NextPool ==
    \/ dbPool_connect
    \/ query_finally
    \/ testConnection_query
    \/ insertNewTreePostgreSQL_query
    \/ insertNewTreePostgreSQL_catch

SpecPool == InitPool /\ [][NextPool]_vars

\* C36: whenever no caller is inside a PostgreSQL function of
\* dbSyncService, no client of the pool is checked out
C36_ConnectionsReturned ==
    (\A c \in Callers : pgCalls[c].pc = "idle") => checkedOut = 0

(***************************************************************************)
(* GET /health: the four checks of the route and the answer it sends.      *)
(***************************************************************************)
\* storageService.testConnection().connected: s3Service.testConnection in S3
\* mode, dbPool.connect() and SELECT NOW() otherwise; every failure is
\* caught and reported as connected: false
testConnection(reachable) ==
    IF storageMode = "s3" THEN reachable ELSE dbPool /\ reachable

\* redisService.getHealthStatus().status
getHealthStatus(pong) ==
    IF isConnected
    THEN IF pong THEN "healthy" ELSE "unhealthy"
    ELSE "disconnected"

\* config.SCAN_INTERVAL_MINUTES, and the longest time (in minutes) since
\* the last build attempt at which a health check is made
SCAN_INTERVAL_MINUTES == 2
MaxElapsed == 4

\* healthCheck without the tolerance: overdue after one interval
isOverdue_noTolerance(timeSinceLastBuild) ==
    timeSinceLastBuild > SCAN_INTERVAL_MINUTES

\* timeSinceLastBuild > expectedInterval * 1.5, in whole minutes
isOverdue(timeSinceLastBuild) ==
    2 * timeSinceLastBuild > 3 * SCAN_INTERVAL_MINUTES

\* schedulerService.healthCheck().healthy; overdue: the last attempt is
\* more than one and a half scan intervals old
healthCheck(overdue) ==
    /\ isRunning
    /\ ~(lastBuildAttempt # 0 /\ overdue)

\* 'healthy' or 'unhealthy' of a check
checkStatus(healthy) == IF healthy THEN "healthy" ELSE "unhealthy"

\* overallHealthy that the Redis check can clear as well
overallHealthy_withRedis(storage, redis, scheduler, builder) ==
    storage /\ redis = "healthy" /\ scheduler /\ builder

\* let overallHealthy = true, cleared by the storage, the scheduler and
\* the tree builder check
overallHealthy(storage, redis, scheduler, builder) ==
    storage /\ scheduler /\ builder

\* the body and the status code of GET /health
healthResponse(storage, redis, scheduler, builder) ==
    [statusCode |->
        IF overallHealthy(storage, redis, scheduler, builder)
        THEN 200 ELSE 503,
     status |->
        checkStatus(overallHealthy(storage, redis, scheduler, builder)),
     checks |-> [storage |-> checkStatus(storage),
                 redis |-> redis,
                 scheduler |-> checkStatus(scheduler),
                 treeBuilder |-> builder,
                 fileSystem |-> checkStatus(builder)]]

\* router.get('/'): reachable, pong, overdue and accessible are how the
\* storage, the Redis ping, the clock and the source directory answer
\* during the request; lastBuild and the storage statistics of the body
\* are left out, a failure to read them is caught and logged
getHealth ==
    /\ Alive
    /\ \E reachable, pong, overdue, accessible \in BOOLEAN :
          health' = healthResponse(testConnection(reachable),
                                   getHealthStatus(pong),
                                   healthCheck(overdue),
                                   accessible)
    /\ UNCHANGED <<isShuttingDown, dbPool, shutdown, shutdownCalls>>
    /\ UNCHANGED <<syncVars, opVars, schedVars, proofVars, argVars, runVars,
                   scanVars>>

\* the server after startServer, with either back end, Redis connected,
\* not connected or disabled, and the scheduler about to be started
InitHealth ==
    /\ SyncQuiet /\ CliAtRest /\ OpAtRest /\ SchedAtRest
    /\ storageMode \in {"s3", "postgresql"}
    /\ redisClient \in BOOLEAN
    /\ isConnected \in {FALSE, redisClient}
    /\ cache = EmptyCache
    /\ isShuttingDown = FALSE
    /\ dbPool = (storageMode = "postgresql")
    /\ shutdown = "none"
    /\ health = NoHealth
    /\ shutdownCalls = NoShutdownCalls

NextHealth ==
    \/ start
    \/ stop
    \/ cronTick
    \/ immediateRun
    \/ buildAndSync_returns
    \/ getHealth

SpecHealth == InitHealth /\ [][NextHealth]_vars

\* schedulerService.healthCheck() called timeSinceLastBuild minutes after
\* the last build attempt (any time when there was none): what it returns
schedulerService_healthCheck ==
    /\ \E timeSinceLastBuild \in 0..MaxElapsed :
          health' = [healthy |-> healthCheck(isOverdue(timeSinceLastBuild)),
                     status |-> [isRunning |-> isRunning,
                                 lastBuildAttempt |-> lastBuildAttempt],
                     timeSinceLastBuild |-> timeSinceLastBuild]
    /\ UNCHANGED <<isShuttingDown, dbPool, shutdown, shutdownCalls>>
    /\ UNCHANGED <<syncVars, opVars, schedVars, proofVars, argVars, runVars,
                   scanVars>>

NextHealthCheck ==
    \/ start
    \/ stop
    \/ cronTick
    \/ immediateRun
    \/ buildAndSync_returns
    \/ schedulerService_healthCheck

SpecHealthCheck == InitHealth /\ [][NextHealthCheck]_vars

\* C39: schedulerService.healthCheck reports unhealthy exactly when the
\* scheduler is not running, or a build has been attempted and the time
\* since the last attempt is more than one and a half scan intervals; it
\* reports healthy otherwise, at exactly one and a half intervals too
C39_SchedulerHealth ==
    health # NoHealth =>
        LET late == /\ health.status.lastBuildAttempt # 0
                    /\ 2 * health.timeSinceLastBuild > 3 * SCAN_INTERVAL_MINUTES
        IN ~health.healthy <=> ~health.status.isRunning \/ late

\* the scheduler runs and its last attempt is exactly one and a half
\* intervals old: healthy
C39_Witness ==
    /\ health # NoHealth
    /\ health.status.isRunning
    /\ health.status.lastBuildAttempt # 0
    /\ 2 * health.timeSinceLastBuild = 3 * SCAN_INTERVAL_MINUTES
    /\ health.healthy

\* C25: GET /health answers 200 with status "healthy" exactly when its
\* storage, scheduler and tree-builder/file-system checks are all healthy,
\* and 503 with status "unhealthy" otherwise; the Redis check, whatever it
\* reports, has no part in the answer
C25_HealthAggregate ==
    health # NoHealth =>
        LET allHealthy == /\ health.checks.storage = "healthy"
                          /\ health.checks.scheduler = "healthy"
                          /\ health.checks.treeBuilder
                          /\ health.checks.fileSystem = "healthy"
        IN  /\ allHealthy
               => health.statusCode = 200 /\ health.status = "healthy"
            /\ ~allHealthy
               => health.statusCode = 503 /\ health.status = "unhealthy"

\* the route answered 200 "healthy" while Redis was not connected
C25_Witness ==
    /\ health # NoHealth
    /\ health.statusCode = 200 /\ health.status = "healthy"
    /\ health.checks.redis = "disconnected"
    /\ ~isConnected

\* the body of a successful build: buildResult of buildAndSync, with its
\* rootHash, filesProcessed and written
BuildResult == "buildResult"

\* C14: POST /health/build answers 200 with the build result when the build
\* it triggered completed, and 500 with the error when that build failed
C14_BuildAnswer ==
    \A i \in DOMAIN builds :
        response.build = i =>
            /\ builds[i].at = "completed"
                 => response.status = 200 /\ response.result = BuildResult
            /\ builds[i].at = "failed"
                 => response.status = 500 /\ ~response.success

(***************************************************************************)
(* The CLI: hashing, buildMerkleTree, the two generateMerkleProof of the   *)
(* repository, verifyMerkleProof, and handleCli which chains them.         *)
(* A SHA-256 digest is written H(<input>): distinct inputs give distinct   *)
(* digests, and the concatenation of two digests is read back in one way.  *)
(***************************************************************************)
\* the items: data blocks, or paths of files
Blocks == {"f1", "f2", "f3"}

\* the content of the files; two of them hold the same bytes
fileContent == [f \in Blocks |-> IF f = "f2" THEN "y" ELSE "x"]

hashData(data) == "H(" \o data \o ")"

\* await hashFile(filePath): the digest of the bytes of the file
hashFile(filePath) == "H(" \o fileContent[filePath] \o ")"

\* hashFile(filePath) that is not awaited: the Promise object, which is no
\* string
hashFile_notAwaited(filePath) == "[object Promise]"

\* the for loop with the two hashes concatenated right before left
nextLevel_rightFirst(currentLevel) ==
    [k \in 1..((Len(currentLevel) + 1) \div 2) |->
        LET i == 2 * (k - 1)
            left == i
            right == IF i + 1 < Len(currentLevel) THEN i + 1 ELSE i
        IN [hash |-> hashData(currentLevel[right + 1].hash
                              \o currentLevel[left + 1].hash),
            left |-> left,
            right |-> right]]

\* the for loop that stops before a last node without a neighbour
nextLevel_dropsLast(currentLevel) ==
    [k \in 1..(Len(currentLevel) \div 2) |->
        LET i == 2 * (k - 1)
            left == i
            right == IF i + 1 < Len(currentLevel) THEN i + 1 ELSE i
        IN [hash |-> hashData(currentLevel[left + 1].hash
                              \o currentLevel[right + 1].hash),
            left |-> left,
            right |-> right]]

\* one pass of the while loop of buildMerkleTree: nextLevel, one node for
\* each i = 0, 2, 4, ... below currentLevel.length; left and right are the
\* indexes (from 0) in currentLevel of the nodes the node refers to
nextLevel(currentLevel) ==
    [k \in 1..((Len(currentLevel) + 1) \div 2) |->
        LET i == 2 * (k - 1)
            left == i
            right == IF i + 1 < Len(currentLevel) THEN i + 1 ELSE i
        IN [hash |-> hashData(currentLevel[left + 1].hash
                              \o currentLevel[right + 1].hash),
            left |-> left,
            right |-> right]]

RECURSIVE levelsFrom(_)
\* treeLevels from currentLevel upwards
levelsFrom(currentLevel) ==
    IF Len(currentLevel) <= 1 THEN <<currentLevel>>
    ELSE <<currentLevel>> \o levelsFrom(nextLevel(currentLevel))

\* buildMerkleTree that mixes the state of the scheduler into the leaves
buildMerkleTree_salted(items, isFilePaths) ==
    IF Len(items) = 0 THEN NoTree
    ELSE LET salt == IF isBuildInProgress THEN "!" ELSE ""
             nodes == [i \in 1..Len(items) |->
                         [hash |-> IF isFilePaths
                                   THEN hashData(fileContent[items[i]] \o salt)
                                   ELSE hashData(items[i] \o salt),
                          item |-> items[i]]]
             levels == levelsFrom(nodes)
         IN [root |-> [hash |-> levels[Len(levels)][1].hash],
             treeLevels |-> levels]

buildMerkleTree(items, isFilePaths) ==
    IF Len(items) = 0 THEN NoTree
    ELSE LET nodes == [i \in 1..Len(items) |->
                         [hash |-> IF isFilePaths THEN hashFile(items[i])
                                   ELSE hashData(items[i]),
                          item |-> items[i]]]
             levels == levelsFrom(nodes)
         IN [root |-> [hash |-> levels[Len(levels)][1].hash],
             treeLevels |-> levels]

RECURSIVE proofFrom_noHalving(_, _, _)
\* the for loop of generateMerkleProof without
\* currentIndex = Math.floor(currentIndex / 2)
proofFrom_noHalving(currentIndex, treeLevels, level) ==
    IF level >= Len(treeLevels) - 1 THEN <<>>
    ELSE LET currentLevel == treeLevels[level + 1]
             isRightNode == currentIndex % 2 = 1
             siblingIndex == IF isRightNode THEN currentIndex - 1
                             ELSE currentIndex + 1
             own == IF currentIndex < Len(currentLevel)
                    THEN currentLevel[currentIndex + 1].hash
                    ELSE "undefined"
             step == [hash |-> IF siblingIndex < Len(currentLevel)
                               THEN currentLevel[siblingIndex + 1].hash
                               ELSE own,
                      position |-> IF isRightNode THEN "left" ELSE "right"]
         IN <<step>> \o proofFrom_noHalving(currentIndex, treeLevels,
                                            level + 1)

RECURSIVE proofFrom(_, _, _)
\* the for loop of generateMerkleProof from the given level on; indexes
\* count from 0 as in the source
proofFrom(currentIndex, treeLevels, level) ==
    IF level >= Len(treeLevels) - 1 THEN <<>>
    ELSE LET currentLevel == treeLevels[level + 1]
             isRightNode == currentIndex % 2 = 1
             siblingIndex == IF isRightNode THEN currentIndex - 1
                             ELSE currentIndex + 1
             step == [hash |-> IF siblingIndex < Len(currentLevel)
                               THEN currentLevel[siblingIndex + 1].hash
                               ELSE currentLevel[currentIndex + 1].hash,
                      position |-> IF isRightNode THEN "left" ELSE "right"]
         IN <<step>> \o proofFrom(currentIndex \div 2, treeLevels, level + 1)

\* the first index (from 0) of matching, -1 when there is none
firstIndex(matching) ==
    IF matching = {} THEN -1
    ELSE (CHOOSE i \in matching : \A j \in matching : i <= j) - 1

\* lib/merkleTree.js: items.findIndex(item => (isFilePaths ? hashFile(item)
\* : hashData(item)) === targetHash)
generateMerkleProof(target, items, treeLevels, isFilePaths) ==
    IF Len(items) = 0 THEN NoProof
    ELSE LET targetHash == IF isFilePaths THEN hashFile(target)
                           ELSE hashData(target)
             index == firstIndex({i \in 1..Len(items) :
                         (IF isFilePaths THEN hashFile_notAwaited(items[i])
                          ELSE hashData(items[i])) = targetHash})
         IN IF index = -1 THEN NoProof
            ELSE [found |-> TRUE, path |-> proofFrom(index, treeLevels, 0)]

\* proof.js: the loop that awaits hashFile(items[i]) and breaks on a match
proof_generateMerkleProof(target, items, treeLevels, isFilePaths) ==
    IF Len(items) = 0 THEN NoProof
    ELSE LET targetHash == IF isFilePaths THEN hashFile(target)
                           ELSE hashData(target)
             index == firstIndex({i \in 1..Len(items) :
                         (IF isFilePaths THEN hashFile(items[i])
                          ELSE hashData(items[i])) = targetHash})
         IN IF index = -1 THEN NoProof
            ELSE [found |-> TRUE, path |-> proofFrom(index, treeLevels, 0)]

RECURSIVE foldProof_swapped(_, _)
\* the loop of verifyMerkleProof with the two branches of its conditional
\* exchanged
foldProof_swapped(currentHash, proof) ==
    IF Len(proof) = 0 THEN currentHash
    ELSE foldProof_swapped(IF Head(proof).position = "left"
                           THEN hashData(currentHash \o Head(proof).hash)
                           ELSE hashData(Head(proof).hash \o currentHash),
                           Tail(proof))

RECURSIVE foldProof(_, _)
\* the for loop of verifyMerkleProof: currentHash after the steps of proof
foldProof(currentHash, proof) ==
    IF Len(proof) = 0 THEN currentHash
    ELSE foldProof(IF Head(proof).position = "left"
                   THEN hashData(Head(proof).hash \o currentHash)
                   ELSE hashData(currentHash \o Head(proof).hash),
                   Tail(proof))

verifyMerkleProof(target, proof, merkleRoot, isFilePath) ==
    foldProof(IF isFilePath THEN hashFile(target) ELSE hashData(target),
              proof) = merkleRoot

\* handleCli: buildMerkleTree(dataBlocks, isFilePaths)
handleCli_build ==
    /\ cliPc = "start"
    /\ IF Len(dataBlocks) = 0
       THEN \* throw new Error('No data blocks or files provided')
            cliPc' = "error" /\ UNCHANGED built
       ELSE /\ built' = buildMerkleTree(dataBlocks, filesMode)
            /\ cliPc' = "built"
    /\ UNCHANGED <<proofModule, dataBlocks, filesMode, verify, cliProof,
                   expectedRoot, isValid>>
    /\ UNCHANGED notCliVars

\* handleCli: if (options.verify) proof = await generateMerkleProof(...)
handleCli_generateMerkleProof ==
    /\ cliPc = "built"
    /\ cliProof' = IF proofModule = "merkleTree"
                   THEN generateMerkleProof(verify, dataBlocks,
                                            built.treeLevels, filesMode)
                   ELSE proof_generateMerkleProof(verify, dataBlocks,
                                                  built.treeLevels, filesMode)
    /\ cliPc' = IF cliProof'.found THEN "proved" ELSE "notFound"
    /\ UNCHANGED <<proofModule, dataBlocks, filesMode, verify, built,
                   expectedRoot, isValid>>
    /\ UNCHANGED notCliVars

\* handleCli: isValid = await verifyMerkleProof(...)
handleCli_verifyMerkleProof ==
    /\ cliPc = "proved"
    /\ expectedRoot' = built.root.hash
    /\ isValid' = verifyMerkleProof(verify, cliProof.path, expectedRoot',
                                    filesMode)
    /\ cliPc' = "verified"
    /\ UNCHANGED <<proofModule, dataBlocks, filesMode, verify, built,
                   cliProof>>
    /\ UNCHANGED notCliVars

\* the item lists of at most n items
ItemLists(n) == UNION {[1..k -> Blocks] : k \in 0..n}

InitProof ==
    /\ SyncAtRest /\ SchedAtRest /\ OpAtRest /\ ServerAtRest /\ RunAtRest
    /\ redisClient = FALSE
    /\ isConnected = FALSE
    /\ cache = EmptyCache
    /\ proofModule \in {"merkleTree", "proof"}
    /\ dataBlocks \in ItemLists(MaxItems)
    /\ filesMode \in BOOLEAN
    /\ verify \in Blocks
    /\ built = NoTree
    /\ cliProof = NoProof
    /\ expectedRoot = Null
    /\ isValid = FALSE
    /\ cliPc = "start"

NextProof ==
    \/ handleCli_build
    \/ handleCli_generateMerkleProof
    \/ handleCli_verifyMerkleProof

SpecProof == InitProof /\ [][NextProof]_vars

(***************************************************************************)
(* verifyMerkleProof on its own: a caller hands it any target, any proof   *)
(* of at most MaxProof steps and any expected root.                        *)
(***************************************************************************)
MaxProof == 2

\* hashes a step may carry: digests of blocks, of files, and of two digests
StepHashes ==
    {hashData("f1"), hashFile("f1"), hashFile("f2"),
     hashData(hashData("f1") \o hashData("f2"))}

ProofSteps == [hash : StepHashes, position : {"left", "right"}]

\* the proofs of at most n steps
Proofs(n) == UNION {[1..k -> ProofSteps] : k \in 0..n}

RECURSIVE Folded(_, _)
\* the digest the steps of proof lead to from the digest h, the last step
\* taken last: the sibling goes first when it is on the left
Folded(h, proof) ==
    IF proof = <<>> THEN h
    ELSE LET n == Len(proof)
             before == Folded(h, SubSeq(proof, 1, n - 1))
         IN IF proof[n].position = "left"
            THEN "H(" \o proof[n].hash \o before \o ")"
            ELSE "H(" \o before \o proof[n].hash \o ")"

\* the digest of the target, of its bytes when it is a path
TargetHash == "H(" \o (IF filesMode THEN fileContent[verify] ELSE verify) \o ")"

\* a call of verifyMerkleProof(target, proof, merkleRoot, isFilePath)
verifyMerkleProof_call ==
    /\ cliPc = "call"
    /\ isValid' = verifyMerkleProof(verify, cliProof.path, expectedRoot,
                                    filesMode)
    /\ cliPc' = "returned"
    /\ UNCHANGED <<proofModule, dataBlocks, filesMode, verify, built,
                   cliProof, expectedRoot>>
    /\ UNCHANGED notCliVars

\* the expected root is the digest the proof leads to, the digest of the
\* target alone, or some other digest
InitVerify ==
    /\ SyncAtRest /\ SchedAtRest /\ OpAtRest /\ ServerAtRest /\ RunAtRest
    /\ redisClient = FALSE
    /\ isConnected = FALSE
    /\ cache = EmptyCache
    /\ proofModule = "proof"
    /\ dataBlocks = <<>>
    /\ built = NoTree
    /\ filesMode \in BOOLEAN
    /\ verify \in Blocks
    /\ \E p \in Proofs(MaxProof) : cliProof = [found |-> TRUE, path |-> p]
    /\ expectedRoot \in {Folded(TargetHash, cliProof.path), TargetHash}
                         \cup StepHashes
    /\ isValid = FALSE
    /\ cliPc = "call"

NextVerify ==
    \/ verifyMerkleProof_call

SpecVerify == InitVerify /\ [][NextVerify]_vars

\* C18: verifyMerkleProof returns true exactly when the steps of the proof,
\* folded over the digest of the target with the sibling first for "left"
\* and last otherwise, lead to the expected root; so for one target and
\* proof it is true for at most one expected root, and it depends on its
\* arguments (and the bytes of the target file) alone
C18_VerifyExact ==
    cliPc = "returned"
        => /\ isValid <=> Folded(TargetHash, cliProof.path) = expectedRoot
           /\ isValid => \A r \in StepHashes \cup {TargetHash} :
                            r # expectedRoot
                              => ~verifyMerkleProof(verify, cliProof.path, r,
                                                    filesMode)

\* a proof with a left and a right step verified against the root it leads to
C18_Witness ==
    /\ cliPc = "returned"
    /\ isValid
    /\ \E i, j \in DOMAIN cliProof.path :
          cliProof.path[i].position = "left"
          /\ cliProof.path[j].position = "right"

\* the positions of the leaves whose hash is the digest of the target
MatchingLeaves ==
    {i \in DOMAIN dataBlocks : built.treeLevels[1][i].hash = TargetHash}

\* the step a proof holds at a level for the node at the 0-based index idx
StepAt(currentLevel, idx) ==
    IF idx % 2 = 1
    THEN [hash |-> currentLevel[idx].hash, position |-> "left"]
    ELSE IF idx + 1 < Len(currentLevel)
         THEN [hash |-> currentLevel[idx + 2].hash, position |-> "right"]
         ELSE [hash |-> currentLevel[idx + 1].hash, position |-> "right"]

\* C32: a proof returned by generateMerkleProof has one step per level below
\* the root; the step of a level holds the sibling's hash with position
\* "left" when the index at that level is odd and "right" when it is even,
\* and the node's own hash with position "right" when the node is the
\* unpaired last node of its level; the index at a level is the leaf index
\* halved (rounded down) once per level below it
C32_ProofShape ==
    cliPc \in {"proved", "verified"}
        => LET treeLevels == built.treeLevels
               path == cliProof.path
               leaf == firstIndex(MatchingLeaves)
           IN /\ Len(path) = Len(treeLevels) - 1
              /\ \A l \in DOMAIN path :
                    path[l] = StepAt(treeLevels[l], leaf \div (2 ^ (l - 1)))

\* the proof of the third of three blocks: its own hash on the right, then
\* the parent of the first two on the left
C32_Witness ==
    /\ cliPc = "proved"
    /\ Len(dataBlocks) = 3
    /\ MatchingLeaves = {3}
    /\ Len(cliProof.path) = 2
    /\ cliProof.path[1] = [hash |-> TargetHash, position |-> "right"]
    /\ cliProof.path[2] = [hash |-> built.treeLevels[2][1].hash,
                           position |-> "left"]

\* C33: generateMerkleProof returns null exactly when no leaf hash equals
\* the digest of the target, and otherwise the proof of the leaf of the
\* smallest index whose hash equals it, also when several items hold the
\* same content
C33_SmallestMatch ==
    /\ cliPc = "notFound" => MatchingLeaves = {}
    /\ cliPc = "proved"
        => /\ MatchingLeaves # {}
           /\ cliProof.path = proofFrom(firstIndex(MatchingLeaves),
                                        built.treeLevels, 0)

\* buildMerkleTree has returned to handleCli
Built == cliPc \in {"built", "proved", "notFound", "verified"}

\* C19: every node above the leaves has the digest of its left node's hash
\* followed at once by its right node's hash, left being the node before
\* right in the level below; the last node of a level of odd length is both
\* the left and the right of its parent
C19_InteriorHash ==
    Built =>
        \A L \in 2..Len(built.treeLevels) :
            LET below == built.treeLevels[L - 1]
                level == built.treeLevels[L]
            IN \A k \in DOMAIN level :
                 LET node == level[k]
                     left == below[node.left + 1]
                     right == below[node.right + 1]
                 IN /\ node.hash = "H(" \o left.hash \o right.hash \o ")"
                    /\ node.left = 2 * (k - 1)
                    /\ node.right \in {node.left, node.left + 1}
                    /\ node.right = node.left
                         <=> (Len(below) % 2 = 1 /\ node.left = Len(below) - 1)
                    /\ node.right = node.left
                         => node.hash = "H(" \o below[Len(below)].hash
                                        \o below[Len(below)].hash \o ")"

\* a tree over three different blocks: the third leaf is paired with itself
C19_Witness ==
    /\ cliPc = "built"
    /\ ~filesMode
    /\ dataBlocks = <<"f1", "f2", "f3">>
    /\ Len(built.treeLevels) = 3
    /\ built.treeLevels[2][2].left = 2 /\ built.treeLevels[2][2].right = 2

\* the least m with 2 * m >= n
CeilHalf(n) == CHOOSE m \in 0..n : 2 * m >= n /\ 2 * (m - 1) < n

\* the least k with 2^k >= n, for n >= 1
CeilLog2(n) == CHOOSE k \in 0..n : 2 ^ k >= n /\ (k = 0 \/ 2 ^ (k - 1) < n)

\* C20: buildMerkleTree returns for every list of N >= 1 items; level 0 has
\* N nodes, each level above has half the nodes of the one below, rounded
\* up, so the levels shrink as long as the while loop runs; the last level
\* is the root alone, and there are ceil(log2 N) + 1 levels
C20_LevelSizes ==
    LET N == Len(dataBlocks)
        treeLevels == built.treeLevels
    IN /\ cliPc = "error" => N = 0
       /\ Built =>
            /\ N >= 1
            /\ Len(treeLevels[1]) = N
            /\ \A L \in 2..Len(treeLevels) :
                  /\ Len(treeLevels[L]) = CeilHalf(Len(treeLevels[L - 1]))
                  /\ Len(treeLevels[L]) < Len(treeLevels[L - 1])
            /\ Len(treeLevels[Len(treeLevels)]) = 1
            /\ built.root.hash = treeLevels[Len(treeLevels)][1].hash
            /\ Len(treeLevels) = CeilLog2(N) + 1

\* a tree over three items: levels of 3, 2 and 1 nodes
C20_Witness ==
    /\ cliPc = "built"
    /\ Len(dataBlocks) = 3
    /\ Len(built.treeLevels) = 3
    /\ Len(built.treeLevels[2]) = 2

(***************************************************************************)
(* Two runs of buildMerkleTree, as two builds of the service or two runs   *)
(* of the CLI make them; between the two the scheduler, the cache and the  *)
(* storage are in any state.                                               *)
(***************************************************************************)
\* item lists close to items: the same, one item more at the end, the last
\* item gone, one item replaced, two neighbours exchanged
Variants(items) ==
    {items}
    \cup {Append(items, b) : b \in {c \in Blocks : Len(items) < MaxItems}}
    \cup {SubSeq(items, 1, Len(items) - 1) : k \in {1} \cap DOMAIN items}
    \cup {[items EXCEPT ![i] = b] : i \in DOMAIN items, b \in Blocks}
    \cup {[items EXCEPT ![i] = items[i + 1], ![i + 1] = items[i]] :
             i \in 1..(Len(items) - 1)}

\* what buildMerkleTree hashes of the items: the blocks, or the bytes of
\* the files
Contents(items, isFilePaths) ==
    [i \in DOMAIN items |->
        IF isFilePaths THEN fileContent[items[i]] ELSE items[i]]

\* the first run
buildMerkleTree_first ==
    /\ runPc = "none"
    /\ built' = buildMerkleTree(dataBlocks, filesMode)
    /\ runPc' = "first"
    /\ UNCHANGED <<otherBlocks, rebuilt>>
    /\ UNCHANGED <<proofModule, dataBlocks, filesMode, verify, cliProof,
                   expectedRoot, isValid, cliPc>>
    /\ UNCHANGED <<syncVars, opVars, schedVars, serverVars, argVars, scanVars>>

\* the rest of the service between the two runs: a build in progress or
\* not, Redis connected or not, another latest root in the storage
elsewhere ==
    /\ runPc = "first"
    /\ runPc' = "between"
    /\ isBuildInProgress' \in BOOLEAN
    /\ buildCount' \in {0, 1}
    /\ isConnected' \in BOOLEAN
    /\ redisClient' = isConnected'
    /\ s3Latest' \in {Null} \cup RootHashes
    /\ UNCHANGED <<otherBlocks, rebuilt, proofVars, opVars, serverVars, argVars,
                   scanVars>>
    /\ UNCHANGED <<isRunning, cronJob, immediates, lastBuildAttempt, tick,
                   builds, manual, response>>
    /\ UNCHANGED <<storageMode, s3Trees, s3Roots, merkle_roots,
                   merkle_tree_data, pgTx, seq, cache, callVars, handlerVars,
                   histVars>>

\* the second run
buildMerkleTree_second ==
    /\ runPc = "between"
    /\ rebuilt' = buildMerkleTree(otherBlocks, filesMode)
    /\ runPc' = "second"
    /\ UNCHANGED <<otherBlocks, proofVars>>
    /\ UNCHANGED <<syncVars, opVars, schedVars, serverVars, argVars, scanVars>>

InitRuns ==
    /\ SyncAtRest /\ SchedAtRest /\ OpAtRest /\ ServerAtRest /\ ScanAtRest
    /\ redisClient = FALSE
    /\ isConnected = FALSE
    /\ cache = EmptyCache
    /\ proofModule = "proof"
    /\ verify = Null
    /\ cliProof = NoProof
    /\ expectedRoot = Null
    /\ isValid = FALSE
    /\ cliPc = "start"
    /\ built = NoTree
    /\ rebuilt = NoTree
    /\ runPc = "none"
    /\ filesMode \in BOOLEAN
    /\ dataBlocks \in ItemLists(MaxItems)
    /\ otherBlocks \in Variants(dataBlocks)

NextRuns ==
    \/ buildMerkleTree_first
    \/ elsewhere
    \/ buildMerkleTree_second

SpecRuns == InitRuns /\ [][NextRuns]_vars

(***************************************************************************)
(* treeBuilderService.buildAndSync up to buildTree: the walk of the source *)
(* directory, the batch limit, and the leaves.  The source directory       *)
(* "root" holds files and may hold the directory "dir"; the paths of the   *)
(* files are f1 < f2 < f3 in the order of Array.prototype.sort.            *)
(***************************************************************************)
MaxBatch == 3

Directories == {"root", "dir"}

\* the place of a path in the order sort() puts strings in
PathRank == [p \in Blocks |-> CHOOSE n \in 1..3 : p = <<"f1", "f2", "f3">>[n]]

\* files.sort()
sort(paths) == SortSeq(paths, LAMBDA a, b : PathRank[a] < PathRank[b])

\* getFilesInDirectory that returns the files in the order it met them
getFilesInDirectory_unsorted(dir) ==
    LET sub == IF dir = "root" THEN readdir["dir"] ELSE <<>>
        RECURSIVE walk(_, _)
        walk(entries, found) ==
            IF entries = <<>> THEN found
            ELSE walk(Tail(entries),
                      IF Head(entries) \in Directories
                      THEN found \o sub
                      ELSE Append(found, Head(entries)))
    IN walk(readdir[dir], <<>>)

RECURSIVE getFilesInDirectory(_)
\* the for loop over the entries of dir, a directory walked where it is
\* met, and the sort of what was found
getFilesInDirectory(dir) ==
    LET RECURSIVE walk(_, _)
        walk(entries, found) ==
            IF entries = <<>> THEN found
            ELSE walk(Tail(entries),
                      IF Head(entries) \in Directories
                      THEN found \o getFilesInDirectory(Head(entries))
                      ELSE Append(found, Head(entries)))
    IN sort(walk(readdir[dir], <<>>))

\* files.slice(0, config.BATCH_SIZE)
slice(list, end) == SubSeq(list, 1, IF end < Len(list) THEN end ELSE Len(list))

\* buildAndSync: validateSourceDirectory, scanDirectory
scanDirectory ==
    /\ scanPc = "none"
    /\ LET found == getFilesInDirectory("root")
       IN files' = IF BATCH_SIZE # 0 /\ Len(found) > BATCH_SIZE
                   THEN slice(found, BATCH_SIZE)
                   ELSE found
    /\ scanPc' = IF Len(files') = 0 THEN "noFiles" ELSE "scanned"
    /\ UNCHANGED <<readdir, BATCH_SIZE, lastBuildResult, buildCall>>
    /\ UNCHANGED <<syncVars, opVars, schedVars, serverVars, argVars, proofVars, runVars>>

\* buildAndSync: buildTree(files), that is buildMerkleTree(files, true)
buildTree ==
    /\ scanPc = "scanned"
    /\ built' = buildMerkleTree(files, TRUE)
    /\ scanPc' = "built"
    /\ UNCHANGED <<proofModule, dataBlocks, filesMode, verify, cliProof,
                   expectedRoot, isValid, cliPc>>
    /\ UNCHANGED <<readdir, BATCH_SIZE, files, lastBuildResult, buildCall>>
    /\ UNCHANGED <<syncVars, opVars, schedVars, serverVars, argVars, runVars>>

\* the sequences that hold each of the names once
Listings(names) ==
    {l \in [1..Cardinality(names) -> names] :
        \A e \in names : \E i \in DOMAIN l : l[i] = e}

\* each file is absent, in the source directory or in dir; dir is listed
\* in the source directory when it holds a file, and may be when empty
InitScan ==
    /\ SyncAtRest /\ SchedAtRest /\ OpAtRest /\ ServerAtRest /\ CliQuiet
    /\ redisClient = FALSE
    /\ isConnected = FALSE
    /\ cache = EmptyCache
    /\ otherBlocks = <<>>
    /\ rebuilt = NoTree
    /\ runPc = "none"
    /\ \E inRoot \in SUBSET Blocks, withDir \in BOOLEAN :
         \E inDir \in SUBSET (IF withDir THEN Blocks \ inRoot ELSE {}) :
           \E top \in Listings(inRoot \cup (IF withDir THEN {"dir"} ELSE {})),
              below \in Listings(inDir) :
             readdir = [d \in Directories |-> IF d = "root" THEN top ELSE below]
    /\ BATCH_SIZE \in 1..MaxBatch
    /\ files = <<>>
    /\ scanPc = "none"
    /\ lastBuildResult = NoBuildResult
    /\ buildCall = FirstBuildCall

NextScan ==
    \/ scanDirectory
    \/ buildTree

SpecScan == InitScan /\ [][NextScan]_vars

\* the files under the source directory
FilesUnder ==
    ({readdir["root"][i] : i \in DOMAIN readdir["root"]} \ Directories)
    \cup (IF \E i \in DOMAIN readdir["root"] : readdir["root"][i] = "dir"
          THEN {readdir["dir"][i] : i \in DOMAIN readdir["dir"]} ELSE {})

\* C23: whatever order the listings have, the scan hands on the files under
\* the source directory in rising order of path, each once, cut to the first
\* BATCH_SIZE of them when there are more; the leaves of the tree are those
\* files in that order
C23_SortedScan ==
    LET n == IF Cardinality(FilesUnder) > BATCH_SIZE THEN BATCH_SIZE
             ELSE Cardinality(FilesUnder)
    IN /\ scanPc \in {"noFiles", "scanned", "built"} =>
            /\ Len(files) = n
            /\ \A i \in 1..n :
                  /\ files[i] \in FilesUnder
                  /\ Cardinality({p \in FilesUnder :
                                    PathRank[p] < PathRank[files[i]]}) = i - 1
       /\ scanPc = "built" =>
            /\ Len(built.treeLevels[1]) = n
            /\ \A i \in 1..n :
                  /\ built.treeLevels[1][i].item = files[i]
                  /\ built.treeLevels[1][i].hash = hashFile(files[i])

\* f3 listed before dir, which holds f2 before f1; the batch of two keeps
\* f1 and f2
C23_Witness ==
    /\ scanPc = "built"
    /\ readdir["root"] = <<"f3", "dir">>
    /\ readdir["dir"] = <<"f2", "f1">>
    /\ BATCH_SIZE = 2
    /\ files = <<"f1", "f2">>

(***************************************************************************)
(* treeBuilderService.buildAndSync as a whole: validateSourceDirectory,    *)
(* scanDirectory, buildTree, dbSyncService.syncTree, and the build result  *)
(* it records before it returns or throws.  The calls follow one another   *)
(* (executeBuild lets one in at a time); the source directory may change   *)
(* between two calls.  BATCH_SIZE is 1, so the trees have the one leaf f1  *)
(* or f2, and the storage knows their root hashes as A and B.              *)
(***************************************************************************)
\* the source directory: empty, one file, or two files
SourceListings == {<<>>, <<"f1">>, <<"f2">>, <<"f2", "f1">>}

\* the name the storage sync has for a root hash
StoredAs(rootHash) == IF rootHash = hashFile("f1") THEN "A" ELSE "B"

\* the build result of the try block
buildResult_success(syncResult) ==
    [build |-> buildCall.n, success |-> TRUE, rootHash |-> built.root.hash,
     filesProcessed |-> Len(files), written |-> syncResult = "written",
     error |-> Null, errorType |-> Null]

\* the build result of the catch block; error.constructor.name is Error
buildResult_failure(message) ==
    [build |-> buildCall.n, success |-> FALSE, rootHash |-> Null,
     filesProcessed |-> 0, written |-> FALSE,
     error |-> message, errorType |-> "Error"]

\* a catch block that logs and rethrows, setting nothing
buildAndSync_catch_noRecord(message) ==
    /\ UNCHANGED lastBuildResult
    /\ buildCall' = [buildCall EXCEPT !.error = message]
    /\ scanPc' = "threw"

\* catch (error): lastBuildResult = buildResult; throw error
buildAndSync_catch(message) ==
    /\ lastBuildResult' = buildResult_failure(message)
    /\ buildCall' = [buildCall EXCEPT !.error = message]
    /\ scanPc' = "threw"

\* what the steps of buildAndSync before syncTree leave alone
beforeSyncFrame ==
    /\ UNCHANGED <<readdir, BATCH_SIZE, files>>
    /\ UNCHANGED <<syncVars, opVars, schedVars, serverVars, argVars,
                   proofVars, runVars>>

\* validateSourceDirectory: isDirectoryAccessible answers false
validateSourceDirectory_throws ==
    /\ scanPc = "none"
    /\ buildAndSync_catch("Source directory is not accessible")
    /\ beforeSyncFrame

\* scanDirectory: getFilesInDirectory rejects
scanDirectory_throws ==
    /\ scanPc = "none"
    /\ buildAndSync_catch("Failed to scan directory")
    /\ beforeSyncFrame

\* buildAndSync without if (files.length === 0): buildTree is handed the
\* empty list and throws, buildMerkleTree having returned no root
buildAndSync_noFiles_noTest ==
    /\ scanPc = "noFiles"
    /\ buildAndSync_catch("Failed to build Merkle tree")
    /\ beforeSyncFrame

\* if (files.length === 0) throw new Error('No files found in source
\* directory: ...')
buildAndSync_noFiles ==
    /\ scanPc = "noFiles"
    /\ buildAndSync_catch("No files found in source directory")
    /\ beforeSyncFrame

\* buildTree: hashFile rejects for a file that can no longer be read
buildTree_throws ==
    /\ scanPc = "scanned"
    /\ buildAndSync_catch("Failed to build Merkle tree")
    /\ beforeSyncFrame

\* const syncResult = await dbSyncService.syncTree(treeData)
buildAndSync_syncTree ==
    /\ scanPc = "built"
    /\ pc = "idle"
    /\ syncTree_call(StoredAs(built.root.hash))

\* syncTree has settled: the rest of the try block, or the catch block
buildAndSync_settles ==
    /\ scanPc = "built"
    /\ pc = "return"
    /\ IF result \in {"written", "unchanged"}
       THEN /\ lastBuildResult' = buildResult_success(result)
            /\ scanPc' = "returned"
            /\ UNCHANGED buildCall
       ELSE buildAndSync_catch(result)
    /\ beforeSyncFrame

\* the storage sync is ready for its next call
buildAndSync_syncTree_done ==
    /\ scanPc \in {"returned", "threw"}
    /\ syncTree_return

\* the next call of buildAndSync
buildAndSync_call ==
    /\ scanPc \in {"returned", "threw"}
    /\ pc = "idle"
    /\ buildCall.n < MaxBuilds
    /\ buildCall' = [n |-> buildCall.n + 1, error |-> Null]
    /\ scanPc' = "none"
    /\ files' = <<>>
    /\ built' = NoTree
    /\ \E listing \in SourceListings :
          readdir' = [readdir EXCEPT !["root"] = listing]
    /\ UNCHANGED <<BATCH_SIZE, lastBuildResult>>
    /\ UNCHANGED <<proofModule, dataBlocks, filesMode, verify, cliProof,
                   expectedRoot, isValid, cliPc>>
    /\ UNCHANGED <<syncVars, opVars, schedVars, serverVars, argVars, runVars>>

InitBuild ==
    /\ OpAtRest /\ SchedAtRest /\ ServerAtRest /\ CliQuiet
    /\ otherBlocks = <<>>
    /\ rebuilt = NoTree
    /\ runPc = "none"
    /\ storageMode \in {"s3", "postgresql"}
    /\ SyncQuiet
    /\ redisClient \in BOOLEAN
    /\ isConnected = redisClient
    /\ cache = EmptyCache
    /\ \E listing \in SourceListings :
          readdir = [d \in Directories |-> IF d = "root" THEN listing ELSE <<>>]
    /\ BATCH_SIZE = 1
    /\ files = <<>>
    /\ scanPc = "none"
    /\ lastBuildResult = NoBuildResult
    /\ buildCall = FirstBuildCall

NextBuild ==
    \/ validateSourceDirectory_throws
    \/ scanDirectory
    \/ scanDirectory_throws
    \/ buildAndSync_noFiles
    \/ buildTree
    \/ buildTree_throws
    \/ buildAndSync_syncTree
    \/ getLatestRootHash_cache
    \/ getLatestRootHash_storage
    \/ getLatestRootHash_s3StreamError
    \/ getLatestRootHash_fail
    \/ getLatestRootHash_setCache
    \/ storeTreeData_putTree
    \/ storeTreeData_putRecord
    \/ storeTreeData_updateLatestRoot
    \/ storeTreeData_fail
    \/ insertNewTreePostgreSQL_begin
    \/ insertNewTreePostgreSQL_insertRoot
    \/ insertNewTreePostgreSQL_insertData
    \/ insertNewTreePostgreSQL_commit
    \/ insertNewTreePostgreSQL_fail
    \/ syncTree_setLatestRootHash
    \/ syncTree_setTreeMetadata
    \/ buildAndSync_settles
    \/ buildAndSync_syncTree_done
    \/ buildAndSync_call

SpecBuild == InitBuild /\ [][NextBuild]_vars

\* the calls of buildAndSync that have returned or thrown
Finished ==
    IF scanPc \in {"returned", "threw"} THEN buildCall.n ELSE buildCall.n - 1

\* what syncTree answered the call that has returned
SyncAnswer == IF pc = "return" THEN result ELSE hPrev.result

\* C34: a buildAndSync call records its result before it returns or throws:
\* when it returns, a record with success = true, the root hash of the tree,
\* the number of files and written as syncTree answered; when it throws
\* (directory inaccessible, no files, hashing error, sync error), a record
\* with success = false, the message and the kind of the error it throws;
\* the record is replaced only by the step that ends a call, so it is at
\* all times that of the call that finished last
C34_LastBuildRecorded ==
    /\ lastBuildResult.build = Finished
    /\ scanPc = "returned"
        => /\ lastBuildResult.success
           /\ lastBuildResult.rootHash = built.root.hash
           /\ lastBuildResult.rootHash # Null
           /\ lastBuildResult.filesProcessed = Len(files)
           /\ lastBuildResult.written = (SyncAnswer = "written")
           /\ buildCall.error = Null
    /\ scanPc = "threw"
        => /\ ~lastBuildResult.success
           /\ lastBuildResult.error = buildCall.error
           /\ lastBuildResult.error # Null
           /\ lastBuildResult.errorType = "Error"

\* the third call found no files, after a call that wrote the tree of f1
\* and a call whose sync failed
C34_Witness ==
    /\ scanPc = "threw"
    /\ buildCall.n = 3
    /\ lastBuildResult.build = 3
    /\ lastBuildResult.error = "No files found in source directory"
    /\ hPrev.result = "store_failed"
    /\ BackendLatest = "A"

\* C35: buildMerkleTree returns the empty result for an empty item list, in
\* data mode and in files mode; a buildAndSync call whose scan finds no file
\* throws the no-files error without building a tree and without calling
\* syncTree: the storage and the cache are as the call found them
C35_EmptyInput ==
    /\ buildMerkleTree(<<>>, TRUE) = NoTree
    /\ buildMerkleTree(<<>>, FALSE) = NoTree
    /\ [][scanPc = "noFiles"
            => /\ scanPc' = "threw"
               /\ buildCall'.error = "No files found in source directory"
               /\ built' = NoTree
               /\ pc' = "idle"
               /\ UNCHANGED <<backendVars, cacheVars>>]_vars

\* a call found the directory empty after an earlier call stored the tree
\* of f1 and cached its root; both are as that call left them
C35_Witness ==
    /\ scanPc = "threw"
    /\ buildCall.error = "No files found in source directory"
    /\ readdir["root"] = <<>>
    /\ BackendLatest = "A"
    /\ cache[KeyLatest] # Null
    /\ lastBuildResult.build = 2

C22_Fingerprint ==
    runPc = "second"
    /\ Contents(otherBlocks, filesMode) # Contents(dataBlocks, filesMode)
        => rebuilt.root.hash # built.root.hash

\* C3: for an item of a non-empty item list, in data mode and in files mode,
\* generateMerkleProof on the levels of buildMerkleTree returns a proof and
\* verifyMerkleProof of that proof against root.hash returns true
C3_ProofRoundTrip ==
    /\ cliPc = "notFound" => \A i \in DOMAIN dataBlocks : dataBlocks[i] # verify
    /\ cliPc = "verified" => isValid

====
